---- MODULE Spec2Model ----
(***************************************************************************)
(* Model of the STM32 touch-GUI firmware: the bit-banged two-wire bus      *)
(* driver (Core/Src/i2c_sw.c, SWI2C functions), the DS1307 clock driver   *)
(* (same file, DS1307 functions) and the parts of the UI controller that   *)
(* consume them (main.c).                                                  *)
(*                                                                         *)
(* Layers, each with its own specification over the shared variables:      *)
(*   SpecBus  - the bus driver against an arbitrary slave, one step per    *)
(*              poll of scl_release_wait (LiveBus adds the fairness of a   *)
(*              running CPU whose cycle counter advances);                 *)
(*   SpecRtc  - the DS1307 driver and the UI's time refresh over a bus     *)
(*              whose transactions succeed or fail as a whole (SpecHalt:   *)
(*              the start of a halted clock at boot);                      *)
(*   SpecLm75 - the LM75 temperature read (sensors_lm75.c);                *)
(*   SpecMap  - the XPT2046 touch driver's raw-to-screen mapping;          *)
(*   SpecApply - setup_apply on every value its fields can hold;           *)
(*   Spec     - the UI controller's main loop (main.c), one step per loop  *)
(*              iteration;                                                 *)
(*   SpecCommit, SpecRelay, SpecSensors, SpecTick, SpecSweep,              *)
(*   SpecDeadline - the same loop with fewer touches and other iteration   *)
(*              periods, run deeper: the commit of an edited time, the     *)
(*              relay toggle, the sensor reads and their texts, the        *)
(*              software clock, the servo sweep, the three deadlines.      *)
(***************************************************************************)
EXTENDS Integers, Sequences, FiniteSets, TLC

VARIABLES
    bus,        \* the bus driver: GPIO output latches, position in the code, locals
    slave,      \* what the slave device drives on SCL / SDA, and the byte it shifts out
    rtc,        \* the DS1307 layer: device registers, DS1307_Time struct, UI time fields
    lm,         \* the LM75 layer: temperature register, status and output of the read
    tp,         \* the touch layer: calibration, orientation, raw sample, XPT_TouchPoint
    ui          \* the UI controller: screen, touch tracking, timers, actuator state

vars == <<bus, slave, rtc, lm, tp, ui>>

(***************************************************************************)
(* Bounds of the model (not program constants).                            *)
(***************************************************************************)
\* polls of SCL after which the 200 us timeout of scl_release_wait has elapsed
MaxPolls == 1
\* largest transfer length (len) a caller passes to SWI2C_Mem_Read / _Write
MaxLen == 2

(***************************************************************************)
(* Bit helpers on uint8_t values.                                          *)
(***************************************************************************)
Pow2(n) == IF n = 0 THEN 1 ELSE IF n = 1 THEN 2 ELSE IF n = 2 THEN 4
           ELSE IF n = 3 THEN 8 ELSE IF n = 4 THEN 16 ELSE IF n = 5 THEN 32
           ELSE IF n = 6 THEN 64 ELSE 128

\* (b & (1U<<i)) != 0
Bit(b, i) == (b \div Pow2(i)) % 2

\* (uint8_t)(addr8 & ~1U)
AddrWrite(addr8) == addr8 - (addr8 % 2)

\* (uint8_t)(addr8 | 1U)
AddrRead(addr8) == addr8 - (addr8 % 2) + 1

\* the level of an open-drain line: low as soon as either side drives it low
Line(masterOut, slaveOut) == IF masterOut = 1 /\ slaveOut = 1 THEN 1 ELSE 0

(***************************************************************************)
(* Inputs of the bus layer.                                                *)
(***************************************************************************)
\* 8-bit device addresses passed by callers: DS1307 (0x68<<1) and one with bit 0 set
Addrs == {208, 145}
\* 7-bit addresses probed by SWI2C_Scan_One
Addrs7 == {104, 72}
\* register offsets
Mems == {0, 2}
\* payload bytes of a write
WriteBytes == {0, 89}
\* bytes a slave shifts out during a read
SlaveBytes == {0, 165}

RECURSIVE SeqsUpTo(_, _)
SeqsUpTo(S, n) ==
    IF n = 0 THEN {<<>>}
    ELSE LET shorter == SeqsUpTo(S, n - 1)
         IN  shorter \cup { Append(s, x) : s \in {t \in shorter : Len(t) = n - 1}, x \in S }

\* one entry of the per-call bus log (observation, not program state)
Ev(t, v, r) == [t |-> t, v |-> v, r |-> r]

(***************************************************************************)
(* The bus driver, i2c_sw.c lines 26-146.                                  *)
(*                                                                         *)
(* bus.pc is the wait the master is in: "wr" / "rd" / "stop" are the       *)
(* scl_release_wait calls inside WR, RD and STOP, "clear" is the pulse     *)
(* loop of SWI2C_BusClear, "done" is a call that has just returned (its    *)
(* result, buffer and log are the caller's to read), "idle" is outside any *)
(* call. bus.bit is the bit being clocked (7..0), -1 for the ACK slot. The *)
(* code between two waits touches only the master's outputs and locals and *)
(* is folded into the step that leaves the first wait. delay_us only       *)
(* spends time.                                                            *)
(***************************************************************************)

\* scl_release_wait, lines 26-33: one evaluation of the while condition and of
\* the timeout test. sclLine is SCL_RD() after SCL_HI(); waited is CYCCNT - start.
scl_release_wait_NoTimeout(sclLine, waited) ==
    IF sclLine = 1 THEN "released" ELSE "waiting"

scl_release_wait(sclLine, waited) ==
    IF sclLine = 1 THEN "released"
    ELSE IF waited > MaxPolls THEN "timeout"
    ELSE "waiting"

\* the cycle counter keeps advancing; past the timeout its value no longer matters
Tick(b) == [b EXCEPT !.waited = IF @ > MaxPolls THEN @ ELSE @ + 1]

\* START, lines 35-39: SDA_HI, SCL_HI, SDA_LO, SCL_LO
START(b) == [b EXCEPT !.sda_out = 0, !.scl_out = 0,
                      !.log = Append(@, Ev("START", 0, "-"))]

\* STOP with a wait that does not begin with SCL_HI
STOP_Begin_ClockKept(b, st) ==
    [b EXCEPT !.pc = "stop", !.ret = st, !.sda_out = 0, !.waited = 0]

\* STOP, lines 41-43: SDA_LO, then scl_release_wait(200) begins with SCL_HI
STOP_Begin(b, st) == [b EXCEPT !.pc = "stop", !.ret = st, !.sda_out = 0,
                               !.scl_out = 1, !.waited = 0]

\* STOP, lines 43-46: the wait's result is discarded, SDA_HI, back in the caller,
\* which returns
STOP_End_NoRelease(b, r) ==
    [b EXCEPT !.pc = "done", !.status = b.ret,
              !.log = Append(@, Ev("STOP", 0, r))]

STOP_End(b, r) ==
    [b EXCEPT !.pc = "done", !.sda_out = 1, !.status = b.ret,
              !.log = Append(@, Ev("STOP", 0, r))]

\* WR, lines 49-53: first bit on SDA, then the first scl_release_wait
WR_Begin(b, k, byte) ==
    [b EXCEPT !.pc = "wr", !.k = k, !.byte = byte, !.bit = 7,
              !.sda_out = Bit(byte, 7), !.scl_out = 1, !.waited = 0]

\* RD, lines 67-71: v = 0, SDA released, then the first scl_release_wait
RD_Begin(b, i, ack) ==
    [b EXCEPT !.pc = "rd", !.k = i, !.ack = ack, !.v = 0, !.bit = 7,
              !.tout = FALSE, !.sda_out = 1, !.scl_out = 1, !.waited = 0]

\* the error exits of SWI2C_Mem_Read / _Write: { STOP(); return HAL_ERROR; }
ErrorExit_NoStop(b) == [b EXCEPT !.pc = "done", !.status = "HAL_ERROR"]

ErrorExit(b) == STOP_Begin(b, "HAL_ERROR")

\* SWI2C_Mem_Read, line 123: (i < (len-1)) ? 1 : 0
MemReadAck_Always(i, len) == 1

MemReadAck(i, len) == IF i < len - 1 THEN 1 ELSE 0

\* SWI2C_Mem_Read, lines 122-126: the read loop from index i on
MemRead_Loop(b, i) ==
    IF i < b.args.len THEN RD_Begin(b, i, MemReadAck(i, b.args.len))
    ELSE STOP_Begin(b, "HAL_OK")

\* SWI2C_Mem_Read, lines 118-122: what follows the return of the k-th WR
MemRead_AfterWR(b, acked) ==
    IF ~acked THEN ErrorExit(b)
    ELSE IF b.k = 0 THEN WR_Begin(b, 1, b.args.mem)
    ELSE IF b.k = 1 THEN WR_Begin(START(b), 2, AddrRead(b.args.addr8))
    ELSE MemRead_Loop(b, 0)

\* SWI2C_Mem_Write, lines 133-137: the write loop from index i on
MemWrite_Loop(b, i) ==
    IF i < b.args.len THEN WR_Begin(b, 2 + i, b.args.data[i + 1])
    ELSE STOP_Begin(b, "HAL_OK")

\* SWI2C_Mem_Write, lines 131-135: what follows the return of the k-th WR
MemWrite_AfterWR_IgnoreNack(b, acked) ==
    IF ~acked /\ b.k < 2 THEN ErrorExit(b)
    ELSE IF b.k = 0 THEN WR_Begin(b, 1, b.args.mem)
    ELSE MemWrite_Loop(b, b.k - 1)

MemWrite_AfterWR(b, acked) ==
    IF ~acked THEN ErrorExit(b)
    ELSE IF b.k = 0 THEN WR_Begin(b, 1, b.args.mem)
    ELSE MemWrite_Loop(b, b.k - 1)

\* SWI2C_Scan_One, lines 143-145: ok = 1 on ACK, STOP, return ok
ScanOne_AfterWR(b, acked) ==
    STOP_Begin([b EXCEPT !.ok = IF acked THEN 1 ELSE 0], "void")

\* WR returns r ("ack", "nack", "timeout") to the operation that called it
WR_Return(b, r) ==
    LET b1 == [b EXCEPT !.log = Append(@, Ev("WR", b.byte, r))]
    IN  IF b.op = "MemRead" THEN MemRead_AfterWR(b1, r = "ack")
        ELSE IF b.op = "MemWrite" THEN MemWrite_AfterWR(b1, r = "ack")
        ELSE ScanOne_AfterWR(b1, r = "ack")

\* WR, lines 50-63, after a successful wait; sda is the SDA line as read
WR_Released(b, sda) ==
    IF b.bit > 0 THEN       \* SCL_LO, next bit on SDA, next wait
        [b EXCEPT !.bit = b.bit - 1, !.sda_out = Bit(b.byte, b.bit - 1),
                  !.scl_out = 1, !.waited = 0]
    ELSE IF b.bit = 0 THEN  \* SCL_LO, SDA_HI (release), wait of the ACK slot
        [b EXCEPT !.bit = -1, !.sda_out = 1, !.scl_out = 1, !.waited = 0]
    ELSE                    \* ack = (SDA_RD()==GPIO_PIN_RESET), SCL_LO, return ack
        WR_Return([b EXCEPT !.scl_out = 0], IF sda = 0 THEN "ack" ELSE "nack")

\* WR, lines 53 and 59: if (!scl_release_wait(200)) return 0;
WR_TimedOut(b) == WR_Return(b, "timeout")

\* SWI2C_Mem_Read, lines 123-125: data[i] = RD(...), next index
RD_Return(b) ==
    LET b1 == [b EXCEPT !.data = Append(@, b.v),
                        !.log = Append(@, Ev("RD", b.ack,
                                             IF b.tout THEN "timeout" ELSE "ok"))]
    IN  MemRead_Loop(b1, b.k + 1)

\* RD, lines 76-78: the ACK/NACK level on SDA, then the wait of the ACK slot
RD_AckSlot(b) ==
    [b EXCEPT !.bit = -1, !.sda_out = IF b.ack = 1 THEN 0 ELSE 1,
              !.scl_out = 1, !.waited = 0]

\* RD, lines 70-83, after a wait has ended; sda is the SDA line as read
RD_Released(b, sda) ==
    IF b.bit >= 0 THEN
        LET b1 == [b EXCEPT !.v = IF sda = 1 THEN @ + Pow2(b.bit) ELSE @]
        IN  IF b.bit > 0 THEN   \* SCL_LO, next wait
                [b1 EXCEPT !.bit = b.bit - 1, !.scl_out = 1, !.waited = 0]
            ELSE RD_AckSlot(b1)
    ELSE    \* SCL_LO, SDA_HI, return v
        RD_Return([b EXCEPT !.scl_out = 0, !.sda_out = 1])

\* RD, line 71: a timed-out wait breaks out of the bit loop; line 78: the
\* result of the wait of the ACK slot is discarded
RD_TimedOut(b) ==
    IF b.bit >= 0 THEN RD_AckSlot([b EXCEPT !.tout = TRUE])
    ELSE RD_Return([b EXCEPT !.tout = TRUE, !.scl_out = 0, !.sda_out = 1])

\* SWI2C_BusClear, line 107: the number of clock pulses
BUSCLEAR_PULSES == 9

\* SWI2C_BusClear, line 110: if (SDA_RD()==GPIO_PIN_SET) break;
BusClear_Break_Never(sda) == FALSE

BusClear_Break(sda) == sda = 1

\* a call is entered: which operation, with which arguments
Call(b, op, args) == [b EXCEPT !.op = op, !.args = args]

NoArgs == [addr8 |-> 0, mem |-> 0, len |-> 0, data |-> <<>>]

\* what the slave may drive after a step that leaves the driver in state b2:
\* any levels; a fresh byte to shift out when a read begins
SlaveAfter(b2, sda) ==
    { [scl |-> c, sda |-> d, byte |-> y] :
        c \in {0, 1}, d \in sda,
        y \in IF b2.pc = "rd" /\ b2.bit = 7 /\ b2.waited = 0 THEN SlaveBytes
              ELSE IF b2.pc = "rd" THEN {slave.byte}
              ELSE {0} }

\* the SDA level the slave may drive while the driver is in state b: the bit
\* of the byte it shifts out during the data bits of a read, anything otherwise
SlaveSda(b) ==
    IF b.pc = "rd" /\ b.bit >= 0 THEN {Bit(slave.byte, b.bit)} ELSE {0, 1}

\* a step of the driver to b2, the slave having driven (scl, sda) during it
Step(b2, scl, sda) ==
    /\ bus' = b2
    /\ \E s \in SlaveAfter(b2, {sda}) : s.scl = scl /\ slave' = s
    /\ UNCHANGED <<rtc, lm, tp, ui>>

\* SWI2C_Init_PB6_PB7, lines 85-102: both lines released (idle-high)
BusInit ==
    [op |-> "Init", pc |-> "idle", args |-> NoArgs, k |-> 0, byte |-> 0, bit |-> 0,
     waited |-> 0, scl_out |-> 1, sda_out |-> 1, v |-> 0, ack |-> 0, tout |-> FALSE,
     data |-> <<>>, status |-> "none", ret |-> "none", ok |-> 0, i |-> 0,
     log |-> <<>>]

(***************************************************************************)
(* Actions of the bus layer.                                               *)
(***************************************************************************)

\* SWI2C_Mem_Read called: START, then WR(addr8 & ~1) up to its first wait
SWI2C_Mem_Read ==
    /\ bus.pc = "idle"
    /\ \E a \in Addrs, m \in Mems, n \in 0..MaxLen, scl \in {0, 1}, sda \in {0, 1} :
        LET args == [addr8 |-> a, mem |-> m, len |-> n, data |-> <<>>]
        IN  Step(WR_Begin(START(Call(bus, "MemRead", args)), 0, AddrWrite(a)),
                 scl, sda)

\* SWI2C_Mem_Write called: START, then WR(addr8 & ~1) up to its first wait
SWI2C_Mem_Write ==
    /\ bus.pc = "idle"
    /\ \E a \in Addrs, m \in Mems, d \in SeqsUpTo(WriteBytes, MaxLen),
          scl \in {0, 1}, sda \in {0, 1} :
        LET args == [addr8 |-> a, mem |-> m, len |-> Len(d), data |-> d]
        IN  Step(WR_Begin(START(Call(bus, "MemWrite", args)), 0, AddrWrite(a)),
                 scl, sda)

\* SWI2C_Scan_One called: START, then WR(addr7 << 1) up to its first wait
SWI2C_Scan_One ==
    /\ bus.pc = "idle"
    /\ \E a \in Addrs7, scl \in {0, 1}, sda \in {0, 1} :
        LET args == [addr8 |-> (a * 2) % 256, mem |-> 0, len |-> 0, data |-> <<>>]
        IN  Step(WR_Begin(START(Call(bus, "ScanOne", args)), 0, (a * 2) % 256),
                 scl, sda)

\* SWI2C_BusClear called, line 106: pulses only if SDA reads low
SWI2C_BusClear ==
    /\ bus.pc = "idle"
    /\ \E scl \in {0, 1}, sda \in {0, 1} :
        LET b0 == Call(bus, "BusClear", NoArgs)
            rd == Line(bus.sda_out, sda)
            b1 == [b0 EXCEPT !.log = Append(@, Ev("SDA", rd, "-"))]
        IN  Step(IF rd = 0 THEN [b1 EXCEPT !.pc = "clear"]
                 ELSE STOP_Begin(b1, "void"),
                 scl, sda)

\* SWI2C_BusClear, lines 107-113: one pulse (SCL_LO, SCL_HI), SDA read, break
\* or next i; STOP after the loop
BusClear_Pulse ==
    /\ bus.pc = "clear"
    /\ \E scl \in {0, 1}, sda \in {0, 1} :
        LET rd == Line(bus.sda_out, sda)
            b1 == [bus EXCEPT !.scl_out = 1, !.i = bus.i + 1,
                              !.log = Append(@, Ev("PULSE", rd, "-"))]
        IN  Step(IF BusClear_Break(rd) \/ b1.i >= BUSCLEAR_PULSES
                 THEN STOP_Begin(b1, "void") ELSE b1,
                 scl, sda)

\* one poll of the scl_release_wait inside WR
WR_Step ==
    /\ bus.pc = "wr"
    /\ \E scl \in {0, 1}, sda \in SlaveSda(bus) :
        LET w == scl_release_wait(Line(bus.scl_out, scl), bus.waited)
        IN  Step(IF w = "released" THEN WR_Released(bus, Line(bus.sda_out, sda))
                 ELSE IF w = "timeout" THEN WR_TimedOut(bus)
                 ELSE Tick(bus),
                 scl, sda)

\* one poll of the scl_release_wait inside RD
RD_Step ==
    /\ bus.pc = "rd"
    /\ \E scl \in {0, 1}, sda \in SlaveSda(bus) :
        LET w == scl_release_wait(Line(bus.scl_out, scl), bus.waited)
        IN  Step(IF w = "released" THEN RD_Released(bus, Line(bus.sda_out, sda))
                 ELSE IF w = "timeout" THEN RD_TimedOut(bus)
                 ELSE Tick(bus),
                 scl, sda)

\* one poll of the scl_release_wait inside STOP
STOP_Step ==
    /\ bus.pc = "stop"
    /\ \E scl \in {0, 1}, sda \in {0, 1} :
        LET w == scl_release_wait(Line(bus.scl_out, scl), bus.waited)
        IN  Step(IF w = "released" THEN STOP_End(bus, "ok")
                 ELSE IF w = "timeout" THEN STOP_End(bus, "timeout")
                 ELSE Tick(bus),
                 scl, sda)

\* the caller has read the result of the call that returned; the locals of the
\* call are gone, the output latches stay as the call left them
CallerContinues ==
    /\ bus.pc = "done"
    /\ \E scl \in {0, 1}, sda \in {0, 1} :
        Step([BusInit EXCEPT !.scl_out = bus.scl_out, !.sda_out = bus.sda_out],
             scl, sda)

\* the DS1307 layer before any driver call: the chip's power-on registers (clock
\* halted, 00:00:00), an empty DS1307_Time struct, and the UI's time fields as
\* main.c initialises them (lines 130-137)
RtcBoot ==
    [regs |-> <<128, 0, 0>>,
     t |-> [seconds |-> 0, minutes |-> 0, hours |-> 0],
     op |-> "none", st |-> "none", wbuf |-> <<0, 0, 0>>, wt |-> {},
     rd |-> "none", sec |-> 0,
     hour |-> 12, minute |-> 34, second |-> 56, time_from_rtc |-> 1]

\* the LM75 layer before any read: the chip's temperature register, the caller's
\* output variable and the UI's temp_c (main.c line 129: 26.5f), temperatures
\* counted in units of 0.125 degree
LmBoot ==
    [reg |-> <<0, 0>>, out_c |-> 0, temp_c |-> 212,
     bst |-> "none", st |-> "none", op |-> "none"]

\* a line of sensor text on the display: nothing drawn, the fault text
\* ("--:--:-- (I2C FAIL)", "--.- C (I2C FAIL)"), or the digits printed
NoText == [kind |-> "none", v |-> <<>>]

FaultText == [kind |-> "fault", v |-> <<>>]

ValueText(v) == [kind |-> "value", v |-> v]

\* the touch layer before XPT_Init: the driver's statics (i2c_sw.c lines 162-167),
\* the orientation asked of the last XPT_Init (that of the static before any
\* call), the caller's XPT_TouchPoint and raw outputs, and the locals of the
\* last call; in rr one call of XPT_ReadRaw taken read by read: its position,
\* the chip-select output, the press-detect level it sampled, the reads done,
\* the two sums, the caller's two output variables and their values at the
\* call, the value returned, the calls made, the bytes the controller will
\* answer to each read, and what has happened on the chip-select line and the
\* serial port since the call
TpBoot ==
    [cal_x_min |-> 350, cal_x_max |-> 3800, cal_y_min |-> 350, cal_y_max |-> 3800,
     out_w |-> 320, out_h |-> 240, rot |-> 90, rot_deg |-> 90,
     pt |-> [x |-> 0, y |-> 0, pressed |-> 0], raw_x |-> 0, raw_y |-> 0,
     op |-> "none", pc |-> "idle", pen |-> 1, rx |-> 0, ry |-> 0,
     ret |-> 0, ms |-> [ok |-> 0, sx |-> 0, sy |-> 0],
     rr |-> [pc |-> "idle", cs |-> 1, pen |-> 1, k |-> 0, sx |-> 0, sy |-> 0,
             raw_x |-> 0, raw_y |-> 0, old_x |-> 0, old_y |-> 0, ret |-> 0,
             calls |-> 0, feed |-> <<>>, log |-> <<>>]]

\* the UI controller before main: the statics of main.c lines 116-144, the tick
\* counter and the TIM4 compare register, then what the last loop iteration did
\* (phase of the touch, the screen handle_touch_topbar chose, the control
\* setup_apply applied, bus write, refresh, sweep step, the devices accessed),
\* for the contact in progress its first sample, whether every sample so far
\* hit the Setup control of the first one, and the number of setup_apply calls
\* it has made, the number of iterations run, the sensor texts the last
\* iteration drew, and for the whole run: the bus writes of the time, the
\* departures from Setup to Check or Project that followed an Hour or Minute
\* edit, whether such an edit has happened since the last departure, the tick of
\* the last entry into Project or refresh, the sweep steps since the relay
\* was last switched on, the screen the last iteration started on, the
\* number of times the relay was switched on, the refreshes since the last
\* entry into Project, the tick of the last press that applied a Setup control
\* and the tick of the last application, and the row of the last hit test
\* made on its own
UiBoot ==
    [ui_state |-> "UI_STARTUP", was_down |-> 0, last_x |-> 0, last_y |-> 0,
     topbar_down |-> 0, setup_active |-> "SH_NONE", setup_t0 |-> 0,
     setup_tlast |-> 0, light_pct |-> 0, temp_threshold |-> 27, relay_on |-> 0,
     proj_t0 |-> 0, time_dirty |-> 0, servo_enable |-> 0, servo_angle |-> 0,
     servo_dir |-> 1, servo_t0_ms |-> 0, tick |-> 0, pwm |-> 0,
     phase |-> "boot", nav |-> "none", applied |-> "SH_NONE", wrote |-> 0,
     refreshed |-> 0, swept |-> 0, io |-> {},
     first_x |-> 0, first_y |-> 0, stayed |-> 0, n_apply |-> 0, iter |-> 0,
     time_text |-> NoText, temp_text |-> NoText, light_text |-> NoText,
     writes |-> 0, exits |-> 0, edited |-> 0, t_proj |-> 0, steps |-> 0,
     prev |-> "UI_STARTUP", ons |-> 0, refreshes |-> 0, t_press |-> 0,
     t_apply |-> 0, row |-> "ROW_NONE"]

InitBus ==
    /\ bus = BusInit
    /\ slave \in { [scl |-> c, sda |-> d, byte |-> 0] : c \in {0, 1}, d \in {0, 1} }
    /\ rtc = RtcBoot
    /\ lm = LmBoot /\ tp = TpBoot /\ ui = UiBoot

NextBus ==
    \/ SWI2C_Mem_Read
    \/ SWI2C_Mem_Write
    \/ SWI2C_Scan_One
    \/ SWI2C_BusClear
    \/ BusClear_Pulse
    \/ WR_Step
    \/ RD_Step
    \/ STOP_Step
    \/ CallerContinues

SpecBus == InitBus /\ [][NextBus]_vars

\* the CPU keeps executing and the cycle counter keeps advancing
LiveBus == InitBus /\ [][NextBus]_vars /\ WF_vars(NextBus)

(***************************************************************************)
(* The DS1307 driver, i2c_sw.c lines 307-360, and the UI's time refresh,   *)
(* main.c lines 180-189. The bus is the driver's SWI2C_Mem_Read/_Write as  *)
(* seen by a caller: a transaction returns HAL_OK, or HAL_ERROR with the   *)
(* chip's registers as they were. rtc.regs are the chip's registers 0..2,  *)
(* rtc.t the DS1307_Time struct of the caller, rtc.wbuf the bytes the last *)
(* DS1307_WriteTime put on the bus and rtc.wt the time it was called with  *)
(* (observations); for DS1307_StartIfHalted rtc.rd is the status of its    *)
(* read, rtc.sec the byte it read and rtc.wbuf the byte it wrote, if any.  *)
(***************************************************************************)

\* bcd_to_dec, line 307: (uint8_t)(((v >> 4) * 10u) + (v & 0x0Fu))
bcd_to_dec(v) == ((v \div 16) * 10 + (v % 16)) % 256

\* dec_to_bcd, line 308: (uint8_t)(((v / 10u) << 4) | (v % 10u)); the low nibble
\* of the shifted quotient is 0 and v % 10 < 16, so the OR is a sum
dec_to_bcd_Mod16(v) == ((v \div 10) * 16 + (v % 16)) % 256

dec_to_bcd(v) == ((v \div 10) * 16 + (v % 10)) % 256

\* DS1307_WriteTime, lines 330-332: the three bytes put on the bus
DS1307_Encode(t) ==
    << dec_to_bcd(t.seconds % 128), dec_to_bcd(t.minutes), dec_to_bcd(t.hours) >>

\* DS1307_ReadTime, lines 321-324: the struct decoded from the three bytes read
DS1307_Decode(buf) ==
    [seconds |-> bcd_to_dec(buf[1] % 128),
     minutes |-> bcd_to_dec(buf[2]),
     hours   |-> bcd_to_dec(buf[3] % 64)]

\* DS1307_WriteTime, lines 328-334: encode rtc.t and write 3 bytes from register 0
DS1307_WriteTime ==
    \E st \in {"HAL_OK", "HAL_ERROR"} :
        LET buf == DS1307_Encode(rtc.t)
        IN  /\ rtc' = [rtc EXCEPT
                    !.op = "WriteTime", !.st = st, !.wbuf = buf,
                    !.regs = IF st = "HAL_OK" THEN buf ELSE @,
                    !.wt = {rtc.t}]
            /\ UNCHANGED <<bus, slave, lm, tp, ui>>

\* DS1307_ReadTime, lines 317-326: read 3 bytes from register 0; on HAL_OK
\* decode them into the caller's struct, otherwise leave it alone
DS1307_ReadTime ==
    \E st \in {"HAL_OK", "HAL_ERROR"} :
        /\ rtc' = [rtc EXCEPT
                !.op = "ReadTime", !.st = st,
                !.t = IF st = "HAL_OK" THEN DS1307_Decode(rtc.regs) ELSE @]
        /\ UNCHANGED <<bus, slave, lm, tp, ui>>

\* REFRESH_Time_From_DS1307, main.c lines 180-189: DS1307_ReadTime into a local
\* struct; on HAL_OK copy it to hour / minute / second, time_from_rtc = 1
REFRESH_Time_From_DS1307 ==
    \E st \in {"HAL_OK", "HAL_ERROR"} :
        LET t == DS1307_Decode(rtc.regs)
        IN  /\ rtc' = IF st = "HAL_OK"
                      THEN [rtc EXCEPT !.op = "Refresh", !.st = st,
                                       !.hour = t.hours, !.minute = t.minutes,
                                       !.second = t.seconds, !.time_from_rtc = 1]
                      ELSE [rtc EXCEPT !.op = "Refresh", !.st = st]
            /\ UNCHANGED <<bus, slave, lm, tp, ui>>

\* DS1307_StartIfHalted, line 358: sec &= 0x7Fu
ClearHalt_Keep(sec) == sec

ClearHalt(sec) == sec % 128

\* DS1307_StartIfHalted, lines 355-360: read the seconds register; if the read
\* succeeded and bit 7 is set, clear it and write the byte back (the status of
\* the write is discarded). rtc.st is HAL_OK when no transaction of the call failed
DS1307_StartIfHalted ==
    \E rst \in {"HAL_OK", "HAL_ERROR"}, wst \in {"HAL_OK", "HAL_ERROR"} :
        LET sec    == rtc.regs[1]
            writes == rst = "HAL_OK" /\ Bit(sec, 7) = 1
        IN  /\ writes \/ wst = "HAL_OK"
            /\ rtc' = [rtc EXCEPT
                    !.op = "StartIfHalted", !.rd = rst,
                    !.sec = IF rst = "HAL_OK" THEN sec ELSE @,
                    !.st = IF rst = "HAL_OK" /\ wst = "HAL_OK" THEN "HAL_OK"
                           ELSE "HAL_ERROR",
                    !.wbuf = IF writes THEN <<ClearHalt(sec)>> ELSE <<>>,
                    !.regs = IF writes /\ wst = "HAL_OK"
                             THEN [@ EXCEPT ![1] = ClearHalt(sec)] ELSE @]
            /\ UNCHANGED <<bus, slave, lm, tp, ui>>

\* the calendar times: seconds 0..59, minutes 0..59, hours 0..23
CalendarTimes ==
    { [seconds |-> x, minutes |-> y, hours |-> z] :
        x \in 0..59, y \in 0..59, z \in 0..23 }

\* values of a field kept while another field runs through its whole range
SomeOf60 == {0, 9, 10, 59}
SomeOf24 == {0, 9, 19, 23}

\* times a caller may pass: the calendar times in which one field takes every
\* value of its range, and every uint8_t in each field
TimeInputs ==
    { t \in CalendarTimes :
        \/ t.minutes \in SomeOf60 /\ t.hours \in SomeOf24
        \/ t.seconds \in SomeOf60 /\ t.hours \in SomeOf24
        \/ t.seconds \in SomeOf60 /\ t.minutes \in SomeOf60 }
    \cup { [seconds |-> x, minutes |-> x, hours |-> x] : x \in 0..255 }

\* register contents the chip may hold when the firmware starts (undefined at
\* first power-up): every uint8_t in each register
RegInputs == { <<x, x, x>> : x \in 0..255 }

InitRtc ==
    /\ bus = BusInit
    /\ slave = [scl |-> 1, sda |-> 1, byte |-> 0]
    /\ \/ \E t \in TimeInputs : rtc = [RtcBoot EXCEPT !.t = t]
       \/ \E r \in RegInputs : rtc = [RtcBoot EXCEPT !.regs = r]
    /\ lm = LmBoot /\ tp = TpBoot /\ ui = UiBoot

NextRtc ==
    \/ DS1307_WriteTime
    \/ DS1307_ReadTime
    \/ REFRESH_Time_From_DS1307

SpecRtc == InitRtc /\ [][NextRtc]_vars

\* the boot-time start of the clock (main.c line 657) and later time writes
NextHalt ==
    \/ DS1307_StartIfHalted
    \/ DS1307_WriteTime

SpecHalt == InitRtc /\ [][NextHalt]_vars

(***************************************************************************)
(* The LM75 temperature read, sensors_lm75.c lines 5-15, and the UI's      *)
(* REFRESH_Temp_From_LM75, main.c lines 191-197. Temperatures are floats   *)
(* of the form n * 0.125f with n an int16_t, which single precision holds  *)
(* exactly; the model keeps n. lm.reg is the chip's temperature register   *)
(* (two bytes, most significant first), lm.bst the status SWI2C_Mem_Read   *)
(* returned, lm.st the status LM75_ReadCelsius returned.                   *)
(***************************************************************************)

\* (int16_t)x of a value 0..65535
ToInt16(u) == IF u >= 32768 THEN u - 65536 ELSE u

\* line 10: (buf[0] << 8) | buf[1]
LM75_Raw_LowFirst(buf) == buf[2] * 256 + buf[1]

LM75_Raw(buf) == buf[1] * 256 + buf[2]

\* line 11: raw >>= 5 on an int16_t (arithmetic shift: rounds towards minus infinity)
LM75_Shift(raw) == raw \div 32

\* line 12: if (raw & 0x0400) raw |= 0xF800, on the int16_t bit pattern
LM75_SignExtend(raw) ==
    LET u == raw % 65536
    IN  IF Bit(u \div 256, 2) = 1 THEN ToInt16((u % 2048) + 63488) ELSE raw

\* lines 10-13: the temperature, in units of 0.125 degree, decoded from two bytes
LM75_Decode(buf) == LM75_SignExtend(LM75_Shift(ToInt16(LM75_Raw(buf))))

\* LM75_ReadCelsius(&out_c), lines 5-15
LM75_ReadCelsius ==
    \E bst \in {"HAL_OK", "HAL_ERROR"} :
        /\ lm' = [lm EXCEPT
                !.op = "ReadCelsius", !.bst = bst, !.st = bst,
                !.out_c = IF bst = "HAL_OK" THEN LM75_Decode(lm.reg) ELSE @]
        /\ UNCHANGED <<bus, slave, rtc, tp, ui>>

\* REFRESH_Temp_From_LM75, main.c lines 191-197: read into a local c = 0.0f and
\* copy it to temp_c on HAL_OK
REFRESH_Temp_From_LM75 ==
    \E bst \in {"HAL_OK", "HAL_ERROR"} :
        /\ lm' = [lm EXCEPT
                !.op = "RefreshTemp", !.bst = bst, !.st = bst,
                !.temp_c = IF bst = "HAL_OK" THEN LM75_Decode(lm.reg) ELSE @]
        /\ UNCHANGED <<bus, slave, rtc, tp, ui>>

\* low bytes of the temperature register tried with every high byte
LowBytes == {0, 1, 31, 32, 64, 96, 127, 128, 160, 224, 255}

\* contents of the temperature register: every high byte with the low bytes above
LmRegInputs == { <<h, l>> : h \in 0..255, l \in LowBytes }

InitLm75 ==
    /\ bus = BusInit
    /\ slave = [scl |-> 1, sda |-> 1, byte |-> 0]
    /\ rtc = RtcBoot
    /\ \E r \in LmRegInputs, c \in {0, 212} : lm = [LmBoot EXCEPT !.reg = r, !.out_c = c]
    /\ tp = TpBoot /\ ui = UiBoot

NextLm75 ==
    \/ LM75_ReadCelsius
    \/ REFRESH_Temp_From_LM75

SpecLm75 == InitLm75 /\ [][NextLm75]_vars

(***************************************************************************)
(* Single-precision arithmetic as map_to_screen uses it (the Cortex-M4 FPU *)
(* evaluates float expressions in binary32, round to nearest, ties to      *)
(* even). A positive float is [m, e] with 2^23 <= m < 2^24 and value       *)
(* m * 2^e; zero is [0, 0]. All intermediate values stay below 2^31.       *)
(***************************************************************************)
INT32_MAX == 2147483647

\* 2^n for 0 <= n <= 30
Exp2(n) == 2 ^ n

\* number of bits of v >= 0
RECURSIVE BitLen(_)
BitLen(v) == IF v = 0 THEN 0 ELSE 1 + BitLen(v \div 2)

F32_Zero == [m |-> 0, e |-> 0]

F32_One == [m |-> 8388608, e |-> -23]

\* q + rem / unit rounded to the nearest integer, ties to even (rem2 = 2 * rem)
RoundEven(q, rem2, unit) ==
    IF rem2 > unit \/ (rem2 = unit /\ q % 2 = 1) THEN q + 1 ELSE q

\* a rounded mantissa that reached 2^24 is 2^23 with the next exponent
F32_Norm(m, e) ==
    IF m = 16777216 THEN [m |-> 8388608, e |-> e + 1] ELSE [m |-> m, e |-> e]

\* (float)v for an integer 0 < v <= INT32_MAX
F32_FromInt(v) ==
    LET k == BitLen(v)
    IN  IF k <= 24 THEN [m |-> v * Exp2(24 - k), e |-> k - 24]
        ELSE LET sh == k - 24
             IN  F32_Norm(RoundEven(v \div Exp2(sh), 2 * (v % Exp2(sh)), Exp2(sh)), sh)

\* (float)|v| for an int32_t v # 0 (|INT32_MIN| = 2^31)
F32_FromAbs(v) ==
    IF v < -INT32_MAX THEN [m |-> 8388608, e |-> 8]
    ELSE F32_FromInt(IF v < 0 THEN -v ELSE v)

\* n more quotient bits of r / b by long division, 0 <= r < b
RECURSIVE F32_DivBits(_, _, _, _)
F32_DivBits(q, r, b, n) ==
    IF n = 0 THEN [q |-> q, r |-> r]
    ELSE IF 2 * r >= b THEN F32_DivBits(2 * q + 1, 2 * r - b, b, n - 1)
         ELSE F32_DivBits(2 * q, 2 * r, b, n - 1)

\* x / y for positive floats
F32_Div(x, y) ==
    LET big == x.m >= y.m
        n0  == IF big THEN x.m ELSE 2 * x.m
        d   == F32_DivBits(1, n0 - y.m, y.m, 23)
    IN  F32_Norm(RoundEven(d.q, 2 * d.r, y.m), x.e - y.e - (IF big THEN 23 ELSE 24))

\* if (n > 1.f) n = 1.f, for a positive float
F32_ClampOne(x) ==
    IF x.e > -23 \/ (x.e = -23 /\ x.m > 8388608) THEN F32_One ELSE x

\* 1.f - x for a float 0 <= x <= 1: x in units of 2^-25 (the part below a unit
\* kept as "sticky"), subtracted from 2^25 and rounded to 24 bits
F32_OneMinus(x) ==
    IF x.m = 0 THEN F32_One
    ELSE IF x = F32_One THEN F32_Zero
    ELSE LET n == -x.e
         IN  IF n <= 25
             THEN LET d == 33554432 - x.m * Exp2(25 - n)
                      k == BitLen(d)
                  IN  IF k <= 24 THEN [m |-> d * Exp2(24 - k), e |-> k - 49]
                      ELSE F32_Norm(RoundEven(d \div 2, 2 * (d % 2), 2), -24)
             ELSE IF n >= 49 THEN F32_One
             ELSE LET x25    == x.m \div Exp2(n - 25)
                      sticky == x.m % Exp2(n - 25) # 0
                      y      == 33554432 - x25
                      q      == IF sticky
                                THEN (IF y % 2 = 0 THEN y \div 2 ELSE (y - 1) \div 2)
                                ELSE RoundEven(y \div 2, 2 * (y % 2), 2)
                  IN  F32_Norm(q, -24)

\* (uint16_t)(x * c) for a float 0 <= x <= 1 and an integer 0 <= c < 2^16: the
\* product m * c is kept as h * 4096 + l; rounded to 24 bits and truncated it is
\* floor(x * c + 2^(k - 25)), k the number of bits of floor(x * c)
F32_MulTrunc(x, c) ==
    LET n  == -x.e
        a1 == (x.m \div 4096) * c
        b1 == (x.m % 4096) * c
        h  == a1 + b1 \div 4096
        l  == b1 % 4096
        fv == IF n >= 42 THEN 0 ELSE h \div Exp2(n - 12)
        j  == n + BitLen(fv) - 25
    IN  IF x.m = 0 \/ c = 0 \/ n >= 42 THEN 0
        ELSE IF j < 0 THEN fv
        ELSE IF j >= 12 THEN (h + Exp2(j - 12)) \div Exp2(n - 12)
        ELSE (h + (l + Exp2(j)) \div 4096) \div Exp2(n - 12)

(***************************************************************************)
(* The XPT2046 touch driver's mapping, i2c_sw.c lines 161-188 and 227-301. *)
(* tp holds the driver's statics, the caller's XPT_TouchPoint (tp.pt) and  *)
(* raw outputs, and of the last call: the level of PENIRQ (tp.pen), the    *)
(* averaged raw sample (tp.rx, tp.ry), the value returned (tp.ret) and the *)
(* result of map_to_screen (tp.ms).                                        *)
(***************************************************************************)

\* x - y overflows an int32_t
Sub32_Overflows(x, y) ==
    \/ y < 0 /\ x > INT32_MAX + y
    \/ y > 0 /\ x < (-INT32_MAX - 1) + y

\* x - y on int32_t as the subtract instruction computes it (modulo 2^32)
Sub32(x, y) ==
    IF y < 0 /\ x > INT32_MAX + y
        THEN ((x - INT32_MAX) - 1) + ((-INT32_MAX - y) - 1)
    ELSE IF y > 0 /\ x < (-INT32_MAX - 1) + y
        THEN ((x + INT32_MAX) + 1) + ((INT32_MAX - y) + 1)
    ELSE x - y

\* lines 232-238: (float)((int32_t)r - lo) / (float)(hi - lo) clamped to 0..1.
\* A signed overflow in a subtraction is undefined: the value the subtract
\* instruction leaves, or either end of the clamp. A zero divisor (excluded by
\* line 229) gives an infinity or a NaN: either end of the clamp
map_norm(r, lo, hi) ==
    LET a == Sub32(r, lo)
        b == Sub32(hi, lo)
        q == IF a = 0 \/ (a < 0) # (b < 0) THEN F32_Zero
             ELSE F32_ClampOne(F32_Div(F32_FromAbs(a), F32_FromAbs(b)))
    IN  IF b = 0 THEN {F32_Zero, F32_One}
        ELSE IF Sub32_Overflows(r, lo) \/ Sub32_Overflows(hi, lo)
             THEN {F32_Zero, F32_One, q}
        ELSE {q}

\* line 229: the calibration is degenerate
map_degenerate_XOnly(c) == c.cal_x_max <= c.cal_x_min

map_degenerate(c) == c.cal_x_max <= c.cal_x_min \/ c.cal_y_max <= c.cal_y_min

\* lines 241-262: the pair scaled to the screen for each orientation
map_rotate_AllSwap(rot, nx, ny) ==
    CASE rot = 180 -> [u |-> F32_OneMinus(nx), v |-> F32_OneMinus(ny)]
      [] rot = 270 -> [u |-> F32_OneMinus(ny), v |-> F32_OneMinus(nx)]
      [] OTHER     -> [u |-> ny, v |-> nx]

map_rotate(rot, nx, ny) ==
    CASE rot = 90  -> [u |-> ny, v |-> nx]
      [] rot = 180 -> [u |-> F32_OneMinus(nx), v |-> F32_OneMinus(ny)]
      [] rot = 270 -> [u |-> F32_OneMinus(ny), v |-> F32_OneMinus(nx)]
      [] OTHER     -> [u |-> nx, v |-> ny]

\* lines 243-260: the factor (out_w - 1), (out_h - 1) of a screen dimension
map_span_Full(size) == size

map_span(size) == size - 1

\* map_to_screen, lines 228-264, with the statics c: the results it may give
map_to_screen(c, rx, ry) ==
    IF map_degenerate(c) THEN { [ok |-> 0, sx |-> 0, sy |-> 0] }
    ELSE { LET p == map_rotate(c.rot, nx, ny)
           IN  [ok |-> 1, sx |-> F32_MulTrunc(p.u, map_span(c.out_w)),
                          sy |-> F32_MulTrunc(p.v, map_span(c.out_h))] :
             nx \in map_norm(rx, c.cal_x_min, c.cal_x_max),
             ny \in map_norm(ry, c.cal_y_min, c.cal_y_max) }

\* calibrations: the driver's default, main's, small ones, degenerate ones, and
\* ones at the ends of int32_t
CalInputs ==
    { <<350, 3800, 350, 3800>>, <<350, 3683, 350, 3802>>, <<0, 100, 0, 100>>,
      <<0, 22, 0, 43>>, <<100, 100, 0, 100>>, <<0, 100, 50, 10>>,
      <<3800, 350, 350, 3800>>, <<-INT32_MAX, INT32_MAX, 0, INT32_MAX>>,
      <<0, 100, -INT32_MAX, 0>> }

\* orientations passed to XPT_Init
RotInputs == {0, 90, 180, 270, 45}

\* screen sizes passed to XPT_Init (width, height >= 1)
SizeInputs == { <<320, 240>>, <<240, 320>>, <<23, 44>>, <<1, 1>>, <<65535, 65535>> }

\* averaged raw samples XPT_ReadRaw may deliver (12-bit conversions and above)
RawValues == {0, 13, 50, 100, 349, 350, 2000, 3683, 3802, 8191}

RawInputs == { <<a, b>> : a \in RawValues, b \in {13, 50, 3802} } \cup
             { <<a, a>> : a \in RawValues }

\* arguments for map_to_screen itself: any uint16_t pair, here the above and the
\* largest uint16_t
MapInputs == RawInputs \cup { <<65535, 0>>, <<0, 65535>>, <<65535, 65535>> }

\* XPT_SetCalibration, lines 169-173
XPT_SetCalibration ==
    /\ tp.pc = "idle"
    /\ \E c \in CalInputs :
        tp' = [tp EXCEPT !.op = "SetCalibration",
                         !.cal_x_min = c[1], !.cal_x_max = c[2],
                         !.cal_y_min = c[3], !.cal_y_max = c[4]]
    /\ UNCHANGED <<bus, slave, rtc, lm, ui>>

\* XPT_Init, lines 175-188: rot_deg is a uint8_t parameter
XPT_Init ==
    /\ tp.pc = "idle"
    /\ \E rot_deg \in RotInputs, s \in SizeInputs :
        tp' = [tp EXCEPT !.op = "Init", !.rot = rot_deg % 256, !.rot_deg = rot_deg,
                         !.out_w = s[1], !.out_h = s[2]]
    /\ UNCHANGED <<bus, slave, rtc, lm, ui>>

\* XPT_GetPoint(&tp), lines 267-281; XPT_ReadRaw (lines 206-225) returns 0 when
\* PENIRQ is high and the averaged sample otherwise
XPT_GetPoint ==
    /\ tp.pc = "idle"
    /\ \E pen \in {0, 1}, raw \in RawInputs :
       \E ms \in IF pen = 1 THEN {tp.ms} ELSE map_to_screen(tp, raw[1], raw[2]) :
        tp' = [tp EXCEPT
                !.op = "GetPoint", !.pc = "done", !.pen = pen,
                !.rx = IF pen = 0 THEN raw[1] ELSE 0,
                !.ry = IF pen = 0 THEN raw[2] ELSE 0,
                !.ms = IF pen = 0 THEN ms ELSE [ok |-> 0, sx |-> 0, sy |-> 0],
                !.ret = IF pen = 0 /\ ms.ok = 1 THEN 1 ELSE 0,
                !.pt = IF pen = 0 /\ ms.ok = 1
                       THEN [x |-> ms.sx, y |-> ms.sy, pressed |-> 1]
                       ELSE [@ EXCEPT !.pressed = 0]]
    /\ UNCHANGED <<bus, slave, rtc, lm, ui>>

\* XPT_GetPointWithRaw(&tp, &raw_x, &raw_y), lines 284-301
XPT_GetPointWithRaw ==
    /\ tp.pc = "idle"
    /\ \E pen \in {0, 1}, raw \in RawInputs :
       \E ms \in IF pen = 1 THEN {tp.ms} ELSE map_to_screen(tp, raw[1], raw[2]) :
        tp' = [tp EXCEPT
                !.op = "GetPointWithRaw", !.pc = "done", !.pen = pen,
                !.rx = IF pen = 0 THEN raw[1] ELSE 0,
                !.ry = IF pen = 0 THEN raw[2] ELSE 0,
                !.ms = IF pen = 0 THEN ms ELSE [ok |-> 0, sx |-> 0, sy |-> 0],
                !.ret = IF pen = 0 /\ ms.ok = 1 THEN 1 ELSE 0,
                !.raw_x = IF pen = 0 /\ ms.ok = 1 THEN raw[1] ELSE @,
                !.raw_y = IF pen = 0 /\ ms.ok = 1 THEN raw[2] ELSE @,
                !.pt = IF pen = 0 /\ ms.ok = 1
                       THEN [x |-> ms.sx, y |-> ms.sy, pressed |-> 1]
                       ELSE [@ EXCEPT !.pressed = 0]]
    /\ UNCHANGED <<bus, slave, rtc, lm, ui>>

\* map_to_screen(rx, ry, &sx, &sy) on its own, for any uint16_t pair
MapToScreen ==
    /\ tp.pc = "idle"
    /\ \E raw \in MapInputs :
       \E ms \in map_to_screen(tp, raw[1], raw[2]) :
        tp' = [tp EXCEPT !.op = "map_to_screen", !.pc = "done", !.pen = 0,
                         !.rx = raw[1], !.ry = raw[2], !.ms = ms, !.ret = ms.ok]
    /\ UNCHANGED <<bus, slave, rtc, lm, ui>>

\* the caller goes on: the locals of the call are gone; the next loop iteration
\* declares a new XPT_TouchPoint and raw outputs, whose contents are indeterminate
TouchReturn ==
    /\ tp.pc = "done"
    /\ \E old \in { [x |-> 0, y |-> 0, pressed |-> 0],
                    [x |-> 65535, y |-> 65535, pressed |-> 1] } :
        tp' = [tp EXCEPT !.op = "none", !.pc = "idle", !.pen = 1, !.rx = 0, !.ry = 0,
                         !.ret = 0, !.ms = [ok |-> 0, sx |-> 0, sy |-> 0],
                         !.pt = old, !.raw_x = old.x, !.raw_y = old.y]
    /\ UNCHANGED <<bus, slave, rtc, lm, ui>>

InitMap ==
    /\ bus = BusInit
    /\ slave = [scl |-> 1, sda |-> 1, byte |-> 0]
    /\ rtc = RtcBoot /\ lm = LmBoot /\ ui = UiBoot
    /\ tp = TpBoot

NextMap ==
    \/ XPT_SetCalibration
    \/ XPT_Init
    \/ XPT_GetPoint
    \/ XPT_GetPointWithRaw
    \/ MapToScreen
    \/ TouchReturn

SpecMap == InitMap /\ [][NextMap]_vars

(***************************************************************************)
(* Observations on a call that has returned.                               *)
(***************************************************************************)
Returned(op) == bus.pc = "done" /\ bus.op = op

\* what an entry of the log is, without how it ended
Kind(e) == <<e.t, e.v>>

LogKinds == [j \in 1..Len(bus.log) |-> Kind(bus.log[j])]

LogCount(t) == Cardinality({j \in 1..Len(bus.log) : bus.log[j].t = t})

\* the bus sequence of a complete read, as the interface describes it
ReadPlan(a) ==
    << <<"START", 0>>, <<"WR", 2 * (a.addr8 \div 2)>>, <<"WR", a.mem>>,
       <<"START", 0>>, <<"WR", 2 * (a.addr8 \div 2) + 1>> >>
    \o [j \in 1..a.len |-> <<"RD", IF j < a.len THEN 1 ELSE 0>>]

\* the bus sequence of a complete write
WritePlan(a) ==
    << <<"START", 0>>, <<"WR", 2 * (a.addr8 \div 2)>>, <<"WR", a.mem>> >>
    \o [j \in 1..a.len |-> <<"WR", a.data[j]>>]

\* the log is the first m entries of plan, all written bytes acknowledged but
\* the m-th, which failed, and then one STOP
AbortedAt(plan, m) ==
    /\ Len(bus.log) = m + 1
    /\ \A j \in 1..m : Kind(bus.log[j]) = plan[j]
    /\ bus.log[m].t = "WR" /\ bus.log[m].r \in {"nack", "timeout"}
    /\ \A j \in 1..(m - 1) : bus.log[j].t = "WR" => bus.log[j].r = "ack"
    /\ bus.log[m + 1].t = "STOP"

(***************************************************************************)
(* C1: whenever SWI2C_Mem_Read or SWI2C_Mem_Write returns HAL_ERROR, the   *)
(* failing byte (the first one not acknowledged, or whose clock wait timed *)
(* out) is followed by exactly one STOP, which is the last bus action of   *)
(* the call: no START, no byte transfer and no retry after it.             *)
(***************************************************************************)
C1_ErrorEndsWithOneStop ==
    (bus.pc = "done" /\ bus.op \in {"MemRead", "MemWrite"} /\ bus.status = "HAL_ERROR")
    => /\ LogCount("STOP") = 1
       /\ \E m \in 2..(Len(bus.log) - 1) :
            AbortedAt(IF bus.op = "MemRead" THEN ReadPlan(bus.args)
                      ELSE WritePlan(bus.args), m)

\* a write that failed on a payload byte whose clock wait timed out
C1_Witness ==
    /\ Returned("MemWrite") /\ bus.status = "HAL_ERROR"
    /\ Len(bus.log) = 5 /\ bus.log[4].r = "timeout"

(***************************************************************************)
(* C2: a SWI2C_Mem_Read that returns HAL_OK has put exactly START,         *)
(* addr8 with bit 0 cleared, reg, START, addr8 with bit 0 set, len reads   *)
(* (ACK on all but the last, NACK on the last) and STOP on the bus, and    *)
(* all three written bytes were acknowledged.                              *)
(***************************************************************************)
C2_ReadSequence ==
    (Returned("MemRead") /\ bus.status = "HAL_OK")
    => /\ LogKinds = ReadPlan(bus.args) \o << <<"STOP", 0>> >>
       /\ \A j \in 1..Len(bus.log) : bus.log[j].t = "WR" => bus.log[j].r = "ack"
       /\ Len(bus.data) = bus.args.len

\* a successful read of at least two bytes
C2_Witness ==
    Returned("MemRead") /\ bus.status = "HAL_OK" /\ bus.args.len >= 2
    /\ bus.args.addr8 = 145

(***************************************************************************)
(* C3: SWI2C_Mem_Read returns HAL_ERROR whenever a clock-release wait      *)
(* inside the transaction timed out, and no byte is read after the wait    *)
(* that timed out.                                                         *)
(***************************************************************************)
C3_ReadFailsOnAnyTimeout ==
    (Returned("MemRead") /\ \E j \in 1..Len(bus.log) : bus.log[j].r = "timeout")
    => /\ bus.status = "HAL_ERROR"
       /\ \A j, k \in 1..Len(bus.log) :
            (bus.log[j].r = "timeout" /\ j < k) => bus.log[k].t # "RD"

(***************************************************************************)
(* C4: SWI2C_Mem_Write puts START, addr8 with bit 0 cleared, reg and the   *)
(* payload bytes in index order on the bus, then STOP. It returns HAL_OK   *)
(* only if every byte was acknowledged; after the first byte that is not,  *)
(* nothing but STOP follows and HAL_ERROR is returned.                     *)
(***************************************************************************)
C4_WriteSequence ==
    Returned("MemWrite")
    => \/ /\ bus.status = "HAL_OK"
          /\ LogKinds = WritePlan(bus.args) \o << <<"STOP", 0>> >>
          /\ \A j \in 1..Len(bus.log) : bus.log[j].t = "WR" => bus.log[j].r = "ack"
       \/ /\ bus.status = "HAL_ERROR"
          /\ \E m \in 2..Len(WritePlan(bus.args)) : AbortedAt(WritePlan(bus.args), m)

\* the first of two payload bytes is not acknowledged: the second is never sent
C4_Witness ==
    /\ Returned("MemWrite") /\ bus.status = "HAL_ERROR" /\ bus.args.len = 2
    /\ Len(bus.log) = 5 /\ bus.log[4].r = "nack"

(***************************************************************************)
(* C5: SWI2C_BusClear generates no clock pulse if SDA reads high on entry; *)
(* otherwise at most 9 pulses, stopping after the first pulse at which SDA *)
(* reads high; in every case it ends with exactly one STOP.                *)
(***************************************************************************)
C5_BusClearPulses ==
    Returned("BusClear")
    => LET n == Len(bus.log)
           pulses == n - 2
       IN  /\ n >= 2
           /\ bus.log[1].t = "SDA"
           /\ \A j \in 2..(n - 1) : bus.log[j].t = "PULSE"
           /\ bus.log[n].t = "STOP" /\ LogCount("STOP") = 1
           /\ bus.log[1].v = 1 => pulses = 0
           /\ bus.log[1].v = 0 => pulses >= 1
           /\ pulses <= 9
           /\ \A j \in 2..(n - 2) : bus.log[j].v = 0
           /\ (pulses >= 1 /\ pulses < 9) => bus.log[n - 1].v = 1

\* SDA still low after all nine pulses
C5_Witness ==
    Returned("BusClear") /\ Len(bus.log) = 11 /\ bus.log[10].v = 0

(***************************************************************************)
(* C6 as claimed: when SWI2C_BusClear returns, the SCL line and the SDA    *)
(* line are both high, also with a slave that keeps holding a line low.    *)
(***************************************************************************)
C6_LinesHighAfterBusClear ==
    Returned("BusClear")
    => Line(bus.scl_out, slave.scl) = 1 /\ Line(bus.sda_out, slave.sda) = 1

(***************************************************************************)
(* C6 amended: when SWI2C_BusClear returns, the master has released both   *)
(* lines (its SCL and SDA outputs are high), so each line is high exactly  *)
(* when the slave is not holding it low.                                   *)
(***************************************************************************)
C6_MasterReleasedAfterBusClear ==
    Returned("BusClear")
    => /\ bus.scl_out = 1 /\ bus.sda_out = 1
       /\ Line(bus.scl_out, slave.scl) = slave.scl
       /\ Line(bus.sda_out, slave.sda) = slave.sda

\* the slave held SDA low through all nine pulses and holds both lines at return
C6_Witness ==
    /\ Returned("BusClear") /\ Len(bus.log) = 11
    /\ slave.scl = 0 /\ slave.sda = 0 /\ bus.log[11].r = "timeout"

(***************************************************************************)
(* C7: every bus operation that has been called eventually returns,        *)
(* whatever the slave does (a slave holding SCL low forever included),     *)
(* given that the CPU runs and the cycle counter advances.                 *)
(***************************************************************************)
C7_EveryCallReturns ==
    (bus.pc \in {"wr", "rd", "stop", "clear"}) ~> (bus.pc = "done")

\* a read that returned although waits in WR and in STOP timed out
C7_Witness ==
    /\ Returned("MemRead")
    /\ \E j \in 1..Len(bus.log) : bus.log[j].t = "WR" /\ bus.log[j].r = "timeout"
    /\ bus.log[Len(bus.log)].r = "timeout"

(***************************************************************************)
(* C8: BCD round trip. bcd_to_dec(dec_to_bcd(x)) = x for every x in 0..99  *)
(* (the minutes byte passes through both functions unmasked), and for      *)
(* every calendar time the three bytes DS1307_WriteTime puts on the bus,   *)
(* returned unchanged by the chip, make DS1307_ReadTime return that time.  *)
(***************************************************************************)
C8_BcdRoundTrip ==
    (rtc.op = "ReadTime" /\ rtc.st = "HAL_OK" /\ rtc.regs = rtc.wbuf)
    => \A w \in rtc.wt :
          /\ w.minutes \in 0..99 => rtc.t.minutes = w.minutes
          /\ w \in CalendarTimes => rtc.t = w

\* 23:59:59 written, held by the chip and read back
C8_Witness ==
    /\ rtc.op = "ReadTime" /\ rtc.st = "HAL_OK" /\ rtc.regs = rtc.wbuf
    /\ rtc.wt = {[seconds |-> 59, minutes |-> 59, hours |-> 23]}
    /\ rtc.regs = <<89, 89, 35>>

(***************************************************************************)
(* C9: DS1307_WriteTime always writes the seconds register with the        *)
(* oscillator-halt bit (bit 7) cleared, for every t.seconds in 0..255.     *)
(***************************************************************************)
C9_WriteTimeClearsHaltBit ==
    rtc.op = "WriteTime" => Bit(rtc.wbuf[1], 7) = 0

(***************************************************************************)
(* C10: whenever DS1307_ReadTime returns HAL_OK the struct holds a         *)
(* calendar time (seconds 0..59, minutes 0..59, hours 0..23) for any three *)
(* register bytes, and the UI's hour / minute / second stay in those       *)
(* ranges in every reachable state.                                        *)
(***************************************************************************)
C10_TimeFieldsInRange ==
    /\ (rtc.op = "ReadTime" /\ rtc.st = "HAL_OK") => rtc.t \in CalendarTimes
    /\ rtc.hour \in 0..23 /\ rtc.minute \in 0..59 /\ rtc.second \in 0..59

(***************************************************************************)
(* C11: DS1307_StartIfHalted writes only if its read of the seconds        *)
(* register succeeded and bit 7 of the byte read is set, and then writes   *)
(* that byte with only bit 7 cleared to the seconds register; otherwise it *)
(* writes nothing. A second call right after a call in which no            *)
(* transaction failed writes nothing and leaves the registers unchanged.   *)
(***************************************************************************)
C11_StartIfHalted ==
    /\ [](rtc.op = "StartIfHalted" =>
            /\ rtc.wbuf # <<>> <=> (rtc.rd = "HAL_OK" /\ Bit(rtc.sec, 7) = 1)
            /\ rtc.wbuf # <<>> => rtc.wbuf = <<rtc.sec - 128>>)
    /\ [][rtc'.op = "StartIfHalted" =>
            /\ rtc'.wbuf = <<>> => rtc'.regs = rtc.regs
            /\ rtc'.rd = "HAL_OK" => rtc'.sec = rtc.regs[1]
            /\ (rtc'.wbuf # <<>> /\ rtc'.st = "HAL_OK")
                   => rtc'.regs = [rtc.regs EXCEPT ![1] = rtc'.wbuf[1]]
            /\ (rtc.op = "StartIfHalted" /\ rtc.st = "HAL_OK")
                   => (rtc'.wbuf = <<>> /\ rtc'.regs = rtc.regs)]_vars

\* a halted clock (seconds register 0xD9) has been started: 0x59 written
C11_Witness ==
    /\ rtc.op = "StartIfHalted" /\ rtc.st = "HAL_OK"
    /\ rtc.sec = 217 /\ rtc.wbuf = <<89>> /\ rtc.regs[1] = 89

(***************************************************************************)
(* C12: LM75_ReadCelsius returns, in units of 0.125 degree, the register   *)
(* value taken as a signed 16-bit number and shifted right arithmetically  *)
(* by 5: an integer, negative exactly when bit 15 of the register is set;  *)
(* on a bus failure it returns the bus error and leaves the output alone.  *)
(***************************************************************************)
C12_ReadCelsius ==
    /\ [](lm.op = "ReadCelsius" =>
            /\ lm.st = lm.bst
            /\ lm.st = "HAL_OK" =>
                 LET raw == 256 * lm.reg[1] + lm.reg[2]
                     s16 == IF Bit(lm.reg[1], 7) = 1 THEN raw - 65536 ELSE raw
                 IN  /\ lm.out_c \in Int
                     /\ 32 * lm.out_c <= s16 /\ s16 < 32 * (lm.out_c + 1)
                     /\ lm.out_c < 0 <=> Bit(lm.reg[1], 7) = 1)
    /\ [][(lm'.op = "ReadCelsius" /\ lm'.st # "HAL_OK") => lm'.out_c = lm.out_c]_vars

\* register 0xE700 (-25 degrees) read successfully: -200 eighths
C12_Witness ==
    /\ lm.op = "ReadCelsius" /\ lm.st = "HAL_OK"
    /\ lm.reg = <<231, 0>> /\ lm.out_c = -200

(***************************************************************************)
(* The touch driver's statics as the claims read them.                     *)
(***************************************************************************)
\* the calibration is degenerate
TpDegenerate == tp.cal_x_max <= tp.cal_x_min \/ tp.cal_y_max <= tp.cal_y_min

\* a subtraction of map_to_screen overflows for the sample of the last call
TpOverflows ==
    \/ Sub32_Overflows(tp.rx, tp.cal_x_min) \/ Sub32_Overflows(tp.cal_x_max, tp.cal_x_min)
    \/ Sub32_Overflows(tp.ry, tp.cal_y_min) \/ Sub32_Overflows(tp.cal_y_max, tp.cal_y_min)

\* a call that ran map_to_screen on a sample has returned
TpMapped ==
    /\ tp.pc = "done" /\ tp.pen = 0
    /\ tp.op \in {"GetPoint", "GetPointWithRaw", "map_to_screen"}

\* x + y for 0 <= x, y < b as carry and sum modulo b, without leaving int32_t
AddMod(x, y, b) ==
    IF x >= b - y THEN [c |-> 1, s |-> x - (b - y)] ELSE [c |-> 0, s |-> x + y]

\* [q, r] with a * p = q * b + r for the number p made of the top n bits of c
RECURSIVE ScaleBits(_, _, _, _)
ScaleBits(a, b, c, n) ==
    IF n = 0 THEN [q |-> 0, r |-> 0]
    ELSE LET prev == ScaleBits(a, b, c \div 2, n - 1)
             dbl  == AddMod(prev.r, prev.r, b)
             add  == AddMod(dbl.s, IF c % 2 = 1 THEN a ELSE 0, b)
         IN  [q |-> 2 * prev.q + dbl.c + add.c, r |-> add.s]

\* floor(clamp01(a / b) * c) in exact arithmetic, for b > 0 and 0 <= c < 2^16
ExactScale(a, b, c) ==
    IF a <= 0 THEN 0 ELSE IF a >= b THEN c ELSE ScaleBits(a, b, c, 16).q

(***************************************************************************)
(* C13: with a degenerate calibration (x_max <= x_min or y_max <= y_min)   *)
(* map_to_screen reports unmapped for every raw sample, and XPT_GetPoint / *)
(* XPT_GetPointWithRaw return 0 with pressed = 0 and without writing x, y  *)
(* or the raw outputs.                                                     *)
(***************************************************************************)
C13_DegenerateNeverMaps ==
    /\ []((TpMapped /\ TpDegenerate) =>
            /\ tp.ms.ok = 0 /\ tp.ret = 0
            /\ tp.op # "map_to_screen" => tp.pt.pressed = 0)
    /\ [][(tp'.pc = "done" /\ tp'.op \in {"GetPoint", "GetPointWithRaw"}
            /\ (tp'.cal_x_max <= tp'.cal_x_min \/ tp'.cal_y_max <= tp'.cal_y_min))
          => /\ tp'.pt.x = tp.pt.x /\ tp'.pt.y = tp.pt.y
             /\ tp'.raw_x = tp.raw_x /\ tp'.raw_y = tp.raw_y]_vars

\* the panel is touched, the calibration has y_max < y_min: no point is reported
\* and the caller's struct keeps what it held
C13_Witness ==
    /\ TpMapped /\ tp.op = "GetPointWithRaw"
    /\ tp.cal_x_max > tp.cal_x_min /\ tp.cal_y_max < tp.cal_y_min
    /\ tp.ret = 0 /\ tp.pt = [x |-> 65535, y |-> 65535, pressed |-> 0]
    /\ tp.raw_x = 65535

C15_AlwaysOnScreen ==
    (TpMapped /\ ~TpDegenerate) =>
        LET lowX  == tp.rx <= tp.cal_x_min
            highX == tp.rx >= tp.cal_x_max
            lowY  == tp.ry <= tp.cal_y_min
            highY == tp.ry >= tp.cal_y_max
            w1    == tp.out_w - 1
            h1    == tp.out_h - 1
        IN  /\ tp.ms.ok = 1
            /\ tp.ms.sx \in 0..w1 /\ tp.ms.sy \in 0..h1
            /\ (~TpOverflows /\ tp.rot \notin {90, 180, 270}) =>
                 /\ (lowX => tp.ms.sx = 0)
                 /\ (highX => tp.ms.sx = w1)
                 /\ (lowY => tp.ms.sy = 0)
                 /\ (highY => tp.ms.sy = h1)
            /\ (~TpOverflows /\ tp.rot = 90) =>
                 /\ (lowY => tp.ms.sx = 0)
                 /\ (highY => tp.ms.sx = w1)
                 /\ (lowX => tp.ms.sy = 0)
                 /\ (highX => tp.ms.sy = h1)
            /\ (~TpOverflows /\ tp.rot = 180) =>
                 /\ (lowX => tp.ms.sx = w1)
                 /\ (highX => tp.ms.sx = 0)
                 /\ (lowY => tp.ms.sy = h1)
                 /\ (highY => tp.ms.sy = 0)

\* main's configuration: a raw sample (65535, 0), far outside the calibration on
\* both axes, lands on the corner (0, 239)
C15_Witness ==
    /\ TpMapped /\ tp.op = "map_to_screen" /\ tp.rot = 90
    /\ tp.out_w = 320 /\ tp.out_h = 240
    /\ tp.cal_x_min = 350 /\ tp.cal_x_max = 3683
    /\ tp.rx = 65535 /\ tp.ry = 0 /\ tp.ms = [ok |-> 1, sx |-> 0, sy |-> 239]


(***************************************************************************)
(* The UI controller, main.c: screen geometry, hit tests, the Setup edits, *)
(* the commit to the DS1307, the touch handlers and the polling loop. The  *)
(* handlers are operators on s = [ui, rtc, lm], the three records they     *)
(* read and write.                                                         *)
(***************************************************************************)

\* main.c lines 56-66: the navigation bar
NAV_Y == 8
NAV_H == 36
NAV_W == 96
BTN_CHECK_X == 8
BTN_SETUP_X == 110
BTN_PROJ_X == 212

\* main.c lines 75-84: the Check screen's buttons
SBTN_W == 90
SBTN_H == 36
SBTN_T1_X == 6
SBTN_T2_X == 108
SBTN_ROW1_Y == 58
SBTN_ROW2_Y == 106

\* main.c lines 90-99: the Setup screen's value boxes and "+" buttons
VAL_X == 134
VAL1_Y == 56
VAL2_Y == 106
VAL3_Y == 156
UBTN_W == 48
UBTN_H == 36
UBTN_X == 198

\* main.c lines 102-103
REPEAT_DELAY_MS == 400
REPEAT_RATE_MS == 100

\* main.c lines 374-376
PAD_TOP == 4
PAD_BOT == 6
PAD_BOT_TTH == 20

\* in_rect, main.c lines 107-112
in_rect(x, y, rx, ry, rw, rh) ==
    x >= rx /\ x < rx + rw /\ y >= ry /\ y < ry + rh

\* the navigation button under a point, in the order handle_touch_topbar tests
\* them (lines 530, 537, 541); "none" off the three buttons
nav_button(x, y) ==
    IF in_rect(x, y, BTN_CHECK_X, NAV_Y, NAV_W, NAV_H) THEN "UI_CHECK"
    ELSE IF in_rect(x, y, BTN_SETUP_X, NAV_Y, NAV_W, NAV_H) THEN "UI_SETUP"
    ELSE IF in_rect(x, y, BTN_PROJ_X, NAV_Y, NAV_W, NAV_H) THEN "UI_PROJECT"
    ELSE "none"

\* setup_row_from_y, main.c lines 372-386
setup_row_from_y(y) ==
    IF y >= VAL3_Y - PAD_TOP /\ y < VAL3_Y + UBTN_H + PAD_BOT_TTH THEN "ROW_TTH"
    ELSE IF y >= VAL2_Y - PAD_TOP /\ y < VAL2_Y + UBTN_H + PAD_BOT THEN "ROW_MIN"
    ELSE IF y >= VAL1_Y - PAD_TOP /\ y < VAL1_Y + UBTN_H + PAD_BOT THEN "ROW_HOUR"
    ELSE "ROW_NONE"

\* the same with the value box taken into the control in every row
setup_hit_test_ValueBoxes(x, y) ==
    LET r  == setup_row_from_y(y)
        ry == CASE r = "ROW_HOUR" -> VAL1_Y
                [] r = "ROW_MIN"  -> VAL2_Y
                [] OTHER          -> VAL3_Y
    IN  IF r = "ROW_NONE" THEN "SH_NONE"
        ELSE IF in_rect(x, y, VAL_X, ry, (UBTN_X + UBTN_W) - VAL_X, UBTN_H)
             THEN CASE r = "ROW_HOUR" -> "SH_HOUR_PLUS"
                    [] r = "ROW_MIN"  -> "SH_MIN_PLUS"
                    [] OTHER          -> "SH_TTH_PLUS"
        ELSE "SH_NONE"

\* setup_hit_test, main.c lines 388-412
setup_hit_test(x, y) ==
    LET r  == setup_row_from_y(y)
        ry == CASE r = "ROW_HOUR" -> VAL1_Y
                [] r = "ROW_MIN"  -> VAL2_Y
                [] OTHER          -> VAL3_Y
    IN  IF r = "ROW_NONE" THEN "SH_NONE"
        ELSE IF r = "ROW_TTH"
             THEN IF in_rect(x, y, VAL_X, ry, (UBTN_X + UBTN_W) - VAL_X, UBTN_H)
                  THEN "SH_TTH_PLUS" ELSE "SH_NONE"
        ELSE IF in_rect(x, y, UBTN_X, ry, UBTN_W, UBTN_H)
             THEN IF r = "ROW_HOUR" THEN "SH_HOUR_PLUS" ELSE "SH_MIN_PLUS"
        ELSE "SH_NONE"

\* setup_apply, line 421: if (++hour >= 24) hour = 0
inc_hour_NoWrap(h) == h + 1

inc_hour(h) == IF h + 1 >= 24 THEN 0 ELSE h + 1

\* setup_apply, line 429: if (++minute >= 60) minute = 0
inc_minute(v) == IF v + 1 >= 60 THEN 0 ELSE v + 1

\* the increment of line 434 without the return to 20
inc_threshold_NoWrap(t) == t + 1

\* setup_apply, line 434: if (++temp_threshold > 35) temp_threshold = 20
inc_threshold(t) == IF t + 1 > 35 THEN 20 ELSE t + 1

\* setup_apply without lines 418-419 and 426-427
setup_apply_NoDirty(s, h) ==
    LET n == [s EXCEPT !.ui.applied = h, !.ui.n_apply = @ + 1]
    IN  CASE h = "SH_HOUR_PLUS" ->
                [n EXCEPT !.rtc.second = 0, !.rtc.hour = inc_hour(@)]
          [] h = "SH_MIN_PLUS" ->
                [n EXCEPT !.rtc.second = 0, !.rtc.minute = inc_minute(@)]
          [] h = "SH_TTH_PLUS" ->
                [n EXCEPT !.ui.temp_threshold = inc_threshold(@)]
          [] OTHER -> s

\* setup_apply without line 420: Hour "+" leaves the seconds as they are
setup_apply_HourKeepsSecond(s, h) ==
    LET n == [s EXCEPT !.ui.applied = h, !.ui.n_apply = @ + 1]
    IN  CASE h = "SH_HOUR_PLUS" ->
                [n EXCEPT !.rtc.time_from_rtc = 0, !.ui.time_dirty = 1,
                          !.rtc.hour = inc_hour(@)]
          [] h = "SH_MIN_PLUS" ->
                [n EXCEPT !.rtc.time_from_rtc = 0, !.ui.time_dirty = 1,
                          !.rtc.second = 0, !.rtc.minute = inc_minute(@)]
          [] h = "SH_TTH_PLUS" ->
                [n EXCEPT !.ui.temp_threshold = inc_threshold(@)]
          [] OTHER -> s

\* setup_apply, main.c lines 414-441 (the redraw of the value box is left out)
setup_apply(s, h) ==
    LET n == [s EXCEPT !.ui.applied = h, !.ui.n_apply = @ + 1]
    IN  CASE h = "SH_HOUR_PLUS" ->
                [n EXCEPT !.rtc.time_from_rtc = 0, !.ui.time_dirty = 1,
                          !.rtc.second = 0, !.rtc.hour = inc_hour(@)]
          [] h = "SH_MIN_PLUS" ->
                [n EXCEPT !.rtc.time_from_rtc = 0, !.ui.time_dirty = 1,
                          !.rtc.second = 0, !.rtc.minute = inc_minute(@)]
          [] h = "SH_TTH_PLUS" ->
                [n EXCEPT !.ui.temp_threshold = inc_threshold(@)]
          [] OTHER -> s

\* Setup_CommitTimeToRTC without line 446
Setup_CommitTimeToRTC_Always(s, wst) ==
    LET t   == [seconds |-> s.rtc.second % 256,
                minutes |-> s.rtc.minute % 256,
                hours   |-> s.rtc.hour % 256]
        buf == DS1307_Encode(t)
    IN  [s EXCEPT !.rtc.op = "WriteTime", !.rtc.st = wst, !.rtc.t = t,
                  !.rtc.wbuf = buf, !.rtc.wt = {t},
                  !.rtc.regs = IF wst = "HAL_OK" THEN buf ELSE @,
                  !.rtc.time_from_rtc = IF wst = "HAL_OK" THEN 1 ELSE @,
                  !.ui.time_dirty = 0, !.ui.wrote = 1,
                  !.ui.io = @ \cup {"rtc"}]

\* Setup_CommitTimeToRTC with line 457 moved into the branch of line 453
Setup_CommitTimeToRTC_Retry(s, wst) ==
    IF s.ui.time_dirty = 0 THEN s
    ELSE LET t   == [seconds |-> s.rtc.second % 256,
                     minutes |-> s.rtc.minute % 256,
                     hours   |-> s.rtc.hour % 256]
             buf == DS1307_Encode(t)
         IN  [s EXCEPT !.rtc.op = "WriteTime", !.rtc.st = wst, !.rtc.t = t,
                       !.rtc.wbuf = buf, !.rtc.wt = {t},
                       !.rtc.regs = IF wst = "HAL_OK" THEN buf ELSE @,
                       !.rtc.time_from_rtc = IF wst = "HAL_OK" THEN 1 ELSE @,
                       !.ui.time_dirty = IF wst = "HAL_OK" THEN 0 ELSE @,
                       !.ui.wrote = 1, !.ui.io = @ \cup {"rtc"}]

\* Setup_CommitTimeToRTC, main.c lines 444-458, wst the status of the bus write:
\* nothing without a pending edit; otherwise DS1307_WriteTime of the three
\* fields cast to uint8_t, time_from_rtc = 1 on HAL_OK, time_dirty = 0 always
Setup_CommitTimeToRTC(s, wst) ==
    IF s.ui.time_dirty = 0 THEN s
    ELSE LET t   == [seconds |-> s.rtc.second % 256,
                     minutes |-> s.rtc.minute % 256,
                     hours   |-> s.rtc.hour % 256]
             buf == DS1307_Encode(t)
         IN  [s EXCEPT !.rtc.op = "WriteTime", !.rtc.st = wst, !.rtc.t = t,
                       !.rtc.wbuf = buf, !.rtc.wt = {t},
                       !.rtc.regs = IF wst = "HAL_OK" THEN buf ELSE @,
                       !.rtc.time_from_rtc = IF wst = "HAL_OK" THEN 1 ELSE @,
                       !.ui.time_dirty = 0, !.ui.wrote = 1,
                       !.ui.io = @ \cup {"rtc"}]


\* REFRESH_Time_From_DS1307 (lines 180-189) as the handlers call it, st the
\* status of DS1307_ReadTime
RefreshTime(s, st) ==
    LET t == DS1307_Decode(s.rtc.regs)
    IN  IF st = "HAL_OK"
        THEN [s EXCEPT !.rtc.op = "Refresh", !.rtc.st = st,
                       !.rtc.hour = t.hours, !.rtc.minute = t.minutes,
                       !.rtc.second = t.seconds, !.rtc.time_from_rtc = 1,
                       !.ui.io = @ \cup {"rtc"}]
        ELSE [s EXCEPT !.rtc.op = "Refresh", !.rtc.st = st,
                       !.ui.io = @ \cup {"rtc"}]

\* REFRESH_Temp_From_LM75 (lines 191-197) as the handlers call it
RefreshTemp(s, st) ==
    [s EXCEPT !.ui.io = @ \cup {"lm"},
              !.lm.op = "RefreshTemp", !.lm.bst = st, !.lm.st = st,
              !.lm.temp_c = IF st = "HAL_OK" THEN LM75_Decode(s.lm.reg) ELSE @]

\* REFRESH_Light_From_ADC, lines 213-224: the percentage computed from a sample
light_from_adc(raw) ==
    LET r    == IF raw > 4095 THEN 4095 ELSE raw
        lpct == 100 - (r * 100) \div 4095
    IN  IF lpct <= 10 THEN 0 ELSE ((lpct - 10) * 100) \div 90

\* what stands for a conversion that did not complete
ADC_FAIL == -1

\* REFRESH_Light_From_ADC, lines 200-228: adc is the converted sample, or ADC_FAIL
\* when HAL_ADC_Start or HAL_ADC_PollForConversion does not return HAL_OK
REFRESH_Light_From_ADC(s, adc) ==
    IF adc = ADC_FAIL THEN [s EXCEPT !.ui.io = @ \cup {"adc"}]
    ELSE [s EXCEPT !.ui.io = @ \cup {"adc"}, !.ui.light_pct = light_from_adc(adc)]

\* SERVO_SetAngle with a pulse of 500..2500 us
SERVO_SetAngle_Wide(angle_deg) ==
    LET a == IF angle_deg < 0 THEN 0 ELSE IF angle_deg > 180 THEN 180 ELSE angle_deg
    IN  500 + (a * (2500 - 500)) \div 180

\* SERVO_SetAngle, lines 233-240: the value written to the TIM4 compare register
SERVO_SetAngle(angle_deg) ==
    LET a == IF angle_deg < 0 THEN 0 ELSE IF angle_deg > 180 THEN 180 ELSE angle_deg
    IN  600 + (a * (2400 - 600)) \div 180

\* (int)(temp_c * k + 0.5f), lines 509 and 571, for temp_c = c eighths of a
\* degree and k = 10 or 100: every intermediate value is a multiple of 1/8
\* below 2^24 and so exact in binary32; the cast truncates toward zero
temp_scaled(c, k) ==
    LET n == c * k + 4
    IN  IF n >= 0 THEN n \div 8 ELSE -((-n) \div 8)

\* UI_DrawProject, lines 491-525: the temperature and the light are read, then
\* the three lines are printed from the statics
UI_DrawProject(s, in) ==
    LET r == REFRESH_Light_From_ADC(RefreshTemp(s, in.lm_st), in.adc)
    IN  [r EXCEPT !.ui.time_text =
                      ValueText(<<r.rtc.hour, r.rtc.minute, r.rtc.second>>),
                  !.ui.temp_text = ValueText(<<temp_scaled(r.lm.temp_c, 100)>>),
                  !.ui.light_text = ValueText(<<r.ui.light_pct>>)]

\* handle_touch_topbar without the commit of lines 531-533 on the way to Check
handle_touch_topbar_NoCommit(s, x, y, in, now) ==
    LET b == nav_button(x, y)
        c == IF s.ui.ui_state = "UI_SETUP"
             THEN Setup_CommitTimeToRTC(s, in.rtc_st) ELSE s
    IN  CASE b = "UI_CHECK"   -> [s EXCEPT !.ui.ui_state = "UI_CHECK", !.ui.nav = b]
          [] b = "UI_SETUP"   -> [s EXCEPT !.ui.ui_state = "UI_SETUP", !.ui.nav = b]
          [] b = "UI_PROJECT" ->
                [UI_DrawProject([c EXCEPT !.ui.ui_state = "UI_PROJECT", !.ui.nav = b],
                                in)
                    EXCEPT !.ui.proj_t0 = now]
          [] OTHER -> s

\* handle_touch_topbar(x, y), lines 528-549; in holds the outcomes of the bus
\* write of the commit and of the reads of UI_DrawProject, now is the value of
\* HAL_GetTick()
handle_touch_topbar(s, x, y, in, now) ==
    LET b == nav_button(x, y)
        c == IF s.ui.ui_state = "UI_SETUP"
             THEN Setup_CommitTimeToRTC(s, in.rtc_st) ELSE s
    IN  CASE b = "UI_CHECK"   -> [c EXCEPT !.ui.ui_state = "UI_CHECK", !.ui.nav = b]
          [] b = "UI_SETUP"   -> [s EXCEPT !.ui.ui_state = "UI_SETUP", !.ui.nav = b]
          [] b = "UI_PROJECT" ->
                [UI_DrawProject([c EXCEPT !.ui.ui_state = "UI_PROJECT", !.ui.nav = b],
                                in)
                    EXCEPT !.ui.proj_t0 = now]
          [] OTHER -> s

\* handle_touch_check with lines 596-597 and 599 repeated in the branch of
\* line 600
handle_touch_check_OffResets(s, x, y, in, now) ==
    IF in_rect(x, y, SBTN_T2_X, SBTN_ROW2_Y, SBTN_W, SBTN_H)
    THEN IF s.ui.relay_on = 0
         THEN [s EXCEPT !.ui.relay_on = 1, !.ui.servo_enable = 1,
                        !.ui.servo_angle = 0, !.ui.servo_dir = 1,
                        !.ui.servo_t0_ms = now, !.ui.pwm = SERVO_SetAngle(0)]
         ELSE [s EXCEPT !.ui.relay_on = 0, !.ui.servo_enable = 0,
                        !.ui.servo_angle = 0, !.ui.servo_dir = 1,
                        !.ui.pwm = SERVO_SetAngle(0)]
    ELSE s

\* handle_touch_check with line 602 left out: the relay goes off, the sweep
\* stays armed
handle_touch_check_KeepArmed(s, x, y, in, now) ==
    IF in_rect(x, y, SBTN_T2_X, SBTN_ROW2_Y, SBTN_W, SBTN_H)
    THEN IF s.ui.relay_on = 0
         THEN [s EXCEPT !.ui.relay_on = 1, !.ui.servo_enable = 1,
                        !.ui.servo_angle = 0, !.ui.servo_dir = 1,
                        !.ui.servo_t0_ms = now, !.ui.pwm = SERVO_SetAngle(0)]
         ELSE [s EXCEPT !.ui.relay_on = 0]
    ELSE s

\* handle_touch_check(x, y), lines 551-605
handle_touch_check(s, x, y, in, now) ==
    IF in_rect(x, y, SBTN_T1_X, SBTN_ROW1_Y, SBTN_W, SBTN_H)
    THEN LET r == RefreshTime(s, in.rtc_st)
         IN  [r EXCEPT !.ui.time_text =
                           ValueText(<<r.rtc.hour, r.rtc.minute, r.rtc.second>>)]
    ELSE IF in_rect(x, y, SBTN_T2_X, SBTN_ROW1_Y, SBTN_W, SBTN_H)
    THEN LET r == RefreshTemp(s, in.lm_st)
         IN  [r EXCEPT !.ui.temp_text = ValueText(<<temp_scaled(r.lm.temp_c, 10)>>)]
    ELSE IF in_rect(x, y, SBTN_T1_X, SBTN_ROW2_Y, SBTN_W, SBTN_H)
    THEN LET r == REFRESH_Light_From_ADC(s, in.adc)
         IN  [r EXCEPT !.ui.light_text = ValueText(<<r.ui.light_pct>>)]
    ELSE IF in_rect(x, y, SBTN_T2_X, SBTN_ROW2_Y, SBTN_W, SBTN_H)
    THEN IF s.ui.relay_on = 0
         THEN [s EXCEPT !.ui.relay_on = 1, !.ui.servo_enable = 1,
                        !.ui.servo_angle = 0, !.ui.servo_dir = 1,
                        !.ui.servo_t0_ms = now, !.ui.pwm = SERVO_SetAngle(0)]
         ELSE [s EXCEPT !.ui.relay_on = 0, !.ui.servo_enable = 0]
    ELSE s

\* main loop, lines 682-685: topbar_down, set when the first sample of a contact
\* is on one of the three navigation buttons
topbar_hit_Any(x, y) == 1

topbar_hit(x, y) ==
    IF \/ in_rect(x, y, BTN_CHECK_X, NAV_Y, NAV_W, NAV_H)
       \/ in_rect(x, y, BTN_SETUP_X, NAV_Y, NAV_W, NAV_H)
       \/ in_rect(x, y, BTN_PROJ_X, NAV_Y, NAV_W, NAV_H)
    THEN 1 ELSE 0

\* main loop, lines 677-694: the first sample of a contact
TouchPress(s, x, y, now) ==
    LET d  == topbar_hit(x, y)
        p  == [s EXCEPT !.ui.phase = "press", !.ui.was_down = 1,
                        !.ui.last_x = x, !.ui.last_y = y, !.ui.topbar_down = d,
                        !.ui.first_x = x, !.ui.first_y = y, !.ui.n_apply = 0,
                        !.ui.stayed = 1]
        h  == setup_hit_test(x, y)
    IN  IF s.ui.ui_state = "UI_SETUP" /\ d = 0
        THEN IF h # "SH_NONE"
             THEN setup_apply([p EXCEPT !.ui.setup_active = h, !.ui.setup_t0 = now,
                                        !.ui.setup_tlast = now], h)
             ELSE [p EXCEPT !.ui.setup_active = h]
        ELSE p

\* the same with the delay after the press left out
repeat_due_NoDelay(s, now) == now - s.ui.setup_tlast >= REPEAT_RATE_MS

\* main loop, lines 703-704: whether the held control is applied again
repeat_due(s, now) ==
    /\ now - s.ui.setup_t0 >= REPEAT_DELAY_MS
    /\ now - s.ui.setup_tlast >= REPEAT_RATE_MS

\* main loop, lines 695-709: a later sample of the contact
TouchHold(s, x, y, now) ==
    LET p == [s EXCEPT !.ui.phase = "hold", !.ui.last_x = x, !.ui.last_y = y,
                       !.ui.stayed = IF setup_hit_test(x, y) =
                                        setup_hit_test(s.ui.first_x, s.ui.first_y)
                                     THEN @ ELSE 0]
    IN  IF /\ s.ui.ui_state = "UI_SETUP"
           /\ s.ui.setup_active # "SH_NONE"
           /\ setup_hit_test(x, y) = s.ui.setup_active
           /\ repeat_due(s, now)
        THEN setup_apply([p EXCEPT !.ui.setup_tlast = now], s.ui.setup_active)
        ELSE p

\* main loop, lines 710-737: no touch; the end of a contact is dispatched
TouchRelease(s, in, now) ==
    LET x == s.ui.last_x
        y == s.ui.last_y
        p == [s EXCEPT !.ui.phase = "release"]
        h == IF s.ui.topbar_down = 1
             THEN handle_touch_topbar(p, x, y, in, now)
             ELSE IF s.ui.ui_state = "UI_CHECK"
             THEN handle_touch_check(p, x, y, in, now)
             ELSE p
    IN  IF s.ui.was_down = 1
        THEN [h EXCEPT !.ui.was_down = 0, !.ui.topbar_down = 0,
                       !.ui.setup_active = "SH_NONE"]
        ELSE [s EXCEPT !.ui.phase = "idle"]

\* the same with lines 762-768 left out
software_tick_NoCarry(r) ==
    IF r.second + 1 < 60 THEN [r EXCEPT !.second = @ + 1]
    ELSE [r EXCEPT !.second = 0]

\* main loop, lines 759-770: one second of the software clock
software_tick(r) ==
    IF r.second + 1 < 60 THEN [r EXCEPT !.second = @ + 1]
    ELSE IF r.minute + 1 < 60 THEN [r EXCEPT !.second = 0, !.minute = @ + 1]
    ELSE [r EXCEPT !.second = 0, !.minute = 0,
                   !.hour = IF @ + 1 >= 24 THEN 0 ELSE @ + 1]

\* the same with the test of line 783 left out
refresh_time_line_NoFault(r, st1) == ValueText(<<r.hour, r.minute, r.second>>)

\* main loop, lines 782-792: the time line of a refresh, st1 the status of the
\* read of the chip
refresh_time_line(r, st1) ==
    IF r.time_from_rtc # 0 /\ st1 # "HAL_OK"
    THEN FaultText
    ELSE ValueText(<<r.hour, r.minute, r.second>>)

\* the same with the test of line 740 left out
refresh_due_AnyScreen(s, now) == now - s.ui.proj_t0 >= 1000

\* main loop, lines 740-742: whether the refresh runs in this iteration
refresh_due(s, now) ==
    s.ui.ui_state = "UI_PROJECT" /\ now - s.ui.proj_t0 >= 1000

\* main loop, lines 740-813: the periodic refresh of the Project screen
ProjectRefresh(s, in, now) ==
    IF refresh_due(s, now)
    THEN LET a == [s EXCEPT !.ui.proj_t0 = now, !.ui.refreshed = 1]
             t == DS1307_Decode(s.rtc.regs)
             b == IF s.rtc.time_from_rtc # 0
                  THEN IF in.rtc_st = "HAL_OK"
                       THEN [a EXCEPT !.rtc.op = "ReadTime", !.rtc.st = in.rtc_st,
                                      !.rtc.hour = t.hours, !.rtc.minute = t.minutes,
                                      !.rtc.second = t.seconds,
                                      !.ui.io = @ \cup {"rtc"}]
                       ELSE [a EXCEPT !.rtc.op = "ReadTime", !.rtc.st = in.rtc_st,
                                      !.ui.io = @ \cup {"rtc"}]
                  ELSE [a EXCEPT !.rtc = software_tick(@)]
             c == [b EXCEPT !.ui.io = @ \cup {"lm"}, !.lm.op = "ReadCelsius", !.lm.bst = in.lm_st,
                            !.lm.st = in.lm_st,
                            !.lm.temp_c = IF in.lm_st = "HAL_OK"
                                          THEN LM75_Decode(s.lm.reg) ELSE @]
             d == REFRESH_Light_From_ADC(c, in.adc)
         IN  [d EXCEPT !.ui.time_text = refresh_time_line(d.rtc, in.rtc_st),
                       !.ui.temp_text =
                           IF in.lm_st = "HAL_OK"
                           THEN ValueText(<<temp_scaled(d.lm.temp_c, 100)>>)
                           ELSE FaultText,
                       !.ui.light_text = ValueText(<<d.ui.light_pct>>)]
    ELSE s

\* the same with line 823 left out
sweep_step_NoTurn(angle, dir) ==
    LET a == angle + dir * 5
    IN  IF a >= 180 THEN [angle |-> 180, dir |-> dir]
        ELSE IF a <= 0 THEN [angle |-> 0, dir |-> 1]
        ELSE [angle |-> a, dir |-> dir]

\* main loop, lines 821-827: the angle and the direction after a step
sweep_step(angle, dir) ==
    LET a == angle + dir * 5
    IN  IF a >= 180 THEN [angle |-> 180, dir |-> -1]
        ELSE IF a <= 0 THEN [angle |-> 0, dir |-> 1]
        ELSE [angle |-> a, dir |-> dir]

\* the same with the test of servo_enable left out
sweep_due_Always(s, now) == now - s.ui.servo_t0_ms >= 20

\* main loop, lines 816-818: whether the sweep steps in this iteration
sweep_due(s, now) == s.ui.servo_enable # 0 /\ now - s.ui.servo_t0_ms >= 20

\* main loop, lines 816-830: one step of the servo sweep
ServoSweep(s, now) ==
    IF sweep_due(s, now)
    THEN LET n == sweep_step(s.ui.servo_angle, s.ui.servo_dir)
         IN  [s EXCEPT !.ui.servo_t0_ms = now, !.ui.servo_angle = n.angle,
                       !.ui.servo_dir = n.dir, !.ui.pwm = SERVO_SetAngle(n.angle),
                       !.ui.swept = 1]
    ELSE s

\* the record of the run kept beside the program's variables, brought up to
\* date from what the iteration from s to r was seen to do
History(s, r, now) ==
    LET edit == r.ui.applied \in {"SH_HOUR_PLUS", "SH_MIN_PLUS"}
        exit == /\ r.ui.phase = "release" /\ s.ui.ui_state = "UI_SETUP"
                /\ r.ui.nav \in {"UI_CHECK", "UI_PROJECT"}
    IN  [r EXCEPT !.ui.writes = @ + r.ui.wrote,
                  !.ui.exits = IF exit /\ s.ui.edited = 1 THEN @ + 1 ELSE @,
                  !.ui.edited = IF edit THEN 1 ELSE IF exit THEN 0 ELSE @,
                  !.ui.t_proj = IF r.ui.nav = "UI_PROJECT" \/ r.ui.refreshed = 1
                                THEN now ELSE @,
                  !.ui.steps = IF s.ui.relay_on = 0 /\ r.ui.relay_on = 1 THEN 0
                               ELSE @ + r.ui.swept,
                  !.ui.prev = s.ui.ui_state,
                  !.ui.ons = IF s.ui.relay_on = 0 /\ r.ui.relay_on = 1
                             THEN @ + 1 ELSE @,
                  !.ui.refreshes = IF r.ui.nav = "UI_PROJECT" THEN 0
                                   ELSE @ + r.ui.refreshed,
                  !.ui.t_press = IF r.ui.phase = "press" /\ r.ui.applied # "SH_NONE"
                                 THEN now ELSE @,
                  !.ui.t_apply = IF r.ui.applied # "SH_NONE" THEN now ELSE @]

\* one iteration of while (1), lines 673-833: in.pt is what XPT_GetPoint left in
\* tp, now the tick counter, which every HAL_GetTick() of the iteration returns
Iteration(s, in, now) ==
    LET c == [s EXCEPT !.ui.tick = now, !.ui.nav = "none", !.ui.applied = "SH_NONE",
                       !.ui.wrote = 0, !.ui.refreshed = 0, !.ui.swept = 0,
                       !.ui.io = {}, !.ui.iter = @ + 1, !.ui.time_text = NoText,
                       !.ui.temp_text = NoText, !.ui.light_text = NoText]
        t == IF in.pt.pressed = 1
             THEN IF s.ui.was_down = 0
                  THEN TouchPress(c, in.pt.x, in.pt.y, now)
                  ELSE TouchHold(c, in.pt.x, in.pt.y, now)
             ELSE TouchRelease(c, in, now)
    IN  History(s, ServoSweep(ProjectRefresh(t, in, now), now), now)


\* the number of loop iterations explored
MaxIter == 6

\* time from one iteration's reads of HAL_GetTick() to the next one's: the
\* HAL_Delay(8) of line 832 plus the touch sampling, bus traffic and drawing
DtInputs == {100, 400}

\* what XPT_ReadRaw delivers, <<PENIRQ level, raw x, raw y>>: pen up, or a
\* sample in the middle of a button
PenUp == <<1, 0, 0>>

NavCheck == <<0, 720, 961>>

NavSetup == <<0, 720, 2065>>

NavProject == <<0, 720, 3169>>

HourPlus == <<0, 1389, 2758>>

MinPlus == <<0, 2086, 2758>>

TthPlus == <<0, 2784, 2758>>

TimeButton == <<0, 1417, 896>>

TempButton == <<0, 1417, 1979>>

LightButton == <<0, 2086, 896>>

RelayButton == <<0, 2086, 1979>>

\* a sample on no button of any screen
Blank == <<0, 3564, 3602>>

AllTouches ==
    { PenUp, NavCheck, NavSetup, NavProject, HourPlus, MinPlus, TthPlus,
      TimeButton, TempButton, LightButton, RelayButton, Blank }

\* the samples of the main specification
TouchInputs ==
    { PenUp, NavCheck, NavSetup, NavProject, HourPlus, MinPlus, RelayButton, Blank }

\* the touch driver as main sets it up, lines 670-671: XPT_Init(&hspi1, 90,
\* 320, 240) and XPT_SetCalibration(350, 3683, 350, 3802)
MainTp ==
    [TpBoot EXCEPT !.rot = 90, !.rot_deg = 90, !.out_w = 320, !.out_h = 240,
                   !.cal_x_min = 350, !.cal_x_max = 3683,
                   !.cal_y_min = 350, !.cal_y_max = 3802]

\* map_to_screen of the samples above under main's set-up, computed once
MainPoints == [t \in AllTouches |-> map_to_screen(MainTp, t[2], t[3])]

\* map_to_screen of a sample under the driver's statics c
ScreenPoints(c, t) ==
    IF /\ t \in DOMAIN MainPoints
       /\ c.rot = MainTp.rot /\ c.out_w = MainTp.out_w /\ c.out_h = MainTp.out_h
       /\ c.cal_x_min = MainTp.cal_x_min /\ c.cal_x_max = MainTp.cal_x_max
       /\ c.cal_y_min = MainTp.cal_y_min /\ c.cal_y_max = MainTp.cal_y_max
    THEN MainPoints[t]
    ELSE map_to_screen(c, t[2], t[3])

\* outcomes of the bus transactions and of the ADC conversion of an iteration
IoInputs ==
    [rtc_st : {"HAL_OK", "HAL_ERROR"}, lm_st : {"HAL_OK", "HAL_ERROR"},
     adc : {ADC_FAIL, 0}]

\* the outcomes when everything answers
IoOk == [rtc_st |-> "HAL_OK", lm_st |-> "HAL_OK", adc |-> 0]

\* the outcomes to tell apart after an iteration that accessed the devices in
\* used: those of a device left alone do not matter and are taken from IoOk
IoChoices(used) ==
    { in \in IoInputs :
        /\ "rtc" \in used \/ in.rtc_st = IoOk.rtc_st
        /\ "lm" \in used \/ in.lm_st = IoOk.lm_st
        /\ "adc" \in used \/ in.adc = IoOk.adc }

\* seconds, minutes and hours registers of the DS1307 when the loop starts:
\* 23:59:00, running
LoopRegs == { <<0, 89, 35>> }

\* main, lines 623-671, up to the loop: the time, temperature and light are
\* read once (every device answering, the light sensor in the dark), the touch driver is set up for the 320 x 240 screen rotated by 90
\* degrees and calibrated
MainBoot(regs, in) ==
    REFRESH_Light_From_ADC(
      RefreshTemp(
        RefreshTime([ui  |-> [UiBoot EXCEPT !.pwm = SERVO_SetAngle(0)],
                     rtc |-> [RtcBoot EXCEPT !.regs = regs],
                     lm  |-> [LmBoot EXCEPT !.reg = <<25, 0>>]],
                    in.rtc_st),
        in.lm_st),
      in.adc)

Init ==
    /\ bus = BusInit
    /\ slave = [scl |-> 1, sda |-> 1, byte |-> 0]
    /\ \E regs \in LoopRegs :
        LET s == MainBoot(regs, [IoOk EXCEPT !.adc = 4095])
        IN  ui = s.ui /\ rtc = s.rtc /\ lm = s.lm
    /\ tp = MainTp

\* one iteration of the loop with the touch drawn from touches and the time
\* since the last iteration from dts: XPT_GetPoint(&tp) on a fresh
\* XPT_TouchPoint (its x and y are never read when the call returns 0), then
\* Iteration with every outcome of the devices it accesses; at most n iterations
LoopN(touches, dts, n) ==
    /\ ui.iter < n
    /\ \E touch \in touches :
       \E ms \in IF touch[1] = 1 THEN {[ok |-> 0, sx |-> 0, sy |-> 0]}
                 ELSE ScreenPoints(tp, touch) :
        LET pressed == touch[1] = 0 /\ ms.ok = 1
            pt      == IF pressed THEN [x |-> ms.sx, y |-> ms.sy, pressed |-> 1]
                       ELSE [x |-> 0, y |-> 0, pressed |-> 0]
            Run(in, dt) == Iteration([ui |-> ui, rtc |-> rtc, lm |-> lm],
                                     [pt |-> pt, rtc_st |-> in.rtc_st,
                                      lm_st |-> in.lm_st, adc |-> in.adc],
                                     ui.tick + dt)
        IN  /\ tp' = [tp EXCEPT !.op = "GetPoint", !.pen = touch[1],
                                !.rx = touch[2], !.ry = touch[3], !.ms = ms,
                                !.ret = IF pressed THEN 1 ELSE 0, !.pt = pt]
            /\ \E dt \in dts :
               \E probe \in {Run(IoOk, dt)} :
               \E in \in IoChoices(probe.ui.io) :
               \E s \in {IF in = IoOk THEN probe ELSE Run(in, dt)} :
                    ui' = s.ui /\ rtc' = s.rtc /\ lm' = s.lm
    /\ UNCHANGED <<bus, slave>>

Loop(touches, dts) == LoopN(touches, dts, MaxIter)

MainLoop == Loop(TouchInputs, DtInputs)

Next == MainLoop

Spec == Init /\ [][Next]_vars


\* the number of setup_apply calls explored from one starting point
MaxApply == 2

\* the Setup controls
SetupControls == {"SH_HOUR_PLUS", "SH_MIN_PLUS", "SH_TTH_PLUS"}

\* the time source and the pending-edit flag, <<time_from_rtc, time_dirty>>,
\* before an edit, after one, and after a commit that failed
EditFlags == { <<1, 0>>, <<0, 1>>, <<0, 0>> }

\* values the fields can hold when a control is applied: every hour, minute and
\* second DS1307_ReadTime can deliver (bcd_to_dec of a 6-bit, 8-bit and 7-bit
\* register), every threshold of the cycle, one field varied at a time
ApplyInputs ==
    { [hour |-> h, minute |-> 34, second |-> 56, temp_threshold |-> 27] :
        h \in 0..45 }
    \cup { [hour |-> 12, minute |-> v, second |-> 56, temp_threshold |-> 27] :
        v \in 0..165 }
    \cup { [hour |-> 12, minute |-> 34, second |-> v, temp_threshold |-> 27] :
        v \in 0..85 }
    \cup { [hour |-> 23, minute |-> 59, second |-> 59, temp_threshold |-> t] :
        t \in 20..35 }

\* the Setup screen with a contact on one of its controls about to be applied
InitApply ==
    /\ bus = BusInit
    /\ slave = [scl |-> 1, sda |-> 1, byte |-> 0]
    /\ lm = LmBoot /\ tp = MainTp
    /\ \E a \in ApplyInputs, f \in EditFlags :
        /\ rtc = [RtcBoot EXCEPT !.hour = a.hour, !.minute = a.minute,
                                 !.second = a.second, !.time_from_rtc = f[1]]
        /\ ui = [UiBoot EXCEPT !.ui_state = "UI_SETUP", !.time_dirty = f[2],
                               !.temp_threshold = a.temp_threshold]

\* setup_apply(h), main.c lines 414-441, for each control
SetupApply ==
    /\ ui.n_apply < MaxApply
    /\ \E h \in SetupControls :
       \E s \in { setup_apply([ui |-> ui, rtc |-> rtc, lm |-> lm], h) } :
            ui' = s.ui /\ rtc' = s.rtc
    /\ UNCHANGED <<bus, slave, lm, tp>>

NextApply == SetupApply

SpecApply == InitApply /\ [][NextApply]_vars

\* The loop with the touches that edit the hour on the Setup screen and leave
\* it, one iteration every 100 ms, deep enough for an edit, a departure from
\* Setup, a return to it and a second departure
MaxCommit == 10

CommitTouches == {PenUp, NavCheck, NavSetup, NavProject, HourPlus}

CommitLoop == LoopN(CommitTouches, {100}, MaxCommit)

NextCommit == CommitLoop

SpecCommit == Init /\ [][NextCommit]_vars

\* The loop with the touches that open the Check screen and tap its Relay
\* button, an iteration every 9 ms (the HAL_Delay(8) of line 832 and the touch
\* sampling) or every 20 ms
MaxRelay == 8

RelayTouches == {PenUp, NavCheck, RelayButton}

RelayLoop == LoopN(RelayTouches, {9, 20}, MaxRelay)

NextRelay == RelayLoop

SpecRelay == Init /\ [][NextRelay]_vars

\* The loop from every outcome of the reads main makes before it (lines
\* 663-665), with the touches that open the Check and Project screens and tap
\* the Time and Temp buttons, an iteration every 400 or 1000 ms
MaxSensor == 5

SensorTouches == {PenUp, NavCheck, NavProject, TimeButton, TempButton}

InitSensors ==
    /\ bus = BusInit
    /\ slave = [scl |-> 1, sda |-> 1, byte |-> 0]
    /\ \E regs \in LoopRegs, in \in IoInputs :
        LET s == MainBoot(regs, in)
        IN  ui = s.ui /\ rtc = s.rtc /\ lm = s.lm
    /\ tp = MainTp

SensorLoop == LoopN(SensorTouches, {400, 1000}, MaxSensor)

NextSensors == SensorLoop

SpecSensors == InitSensors /\ [][NextSensors]_vars

\* The loop on the Project screen with the software clock, an iteration every
\* 1000 ms and no touch. It starts where a failed commit leaves the UI: the
\* hour was edited on Setup, the write on the way to Project got no answer, and
\* the clock has since run to a time of the day, one of those in which one
\* field takes every value of its range
MaxTicks == 2

DayTimes == TimeInputs \cap CalendarTimes

InitTick ==
    /\ bus = BusInit
    /\ slave = [scl |-> 1, sda |-> 1, byte |-> 0]
    /\ \E regs \in LoopRegs, t \in DayTimes :
        LET b == MainBoot(regs, [IoOk EXCEPT !.adc = 4095])
            a == setup_apply([b EXCEPT !.ui.ui_state = "UI_SETUP"], "SH_HOUR_PLUS")
            c == handle_touch_topbar(a, 260, 26, [IoOk EXCEPT !.rtc_st = "HAL_ERROR"], 0)
        IN  /\ ui = c.ui
            /\ rtc = [c.rtc EXCEPT !.hour = t.hours, !.minute = t.minutes,
                                    !.second = t.seconds]
            /\ lm = c.lm
    /\ tp = MainTp

TickLoop == LoopN({PenUp}, {1000}, MaxTicks)

NextTick == TickLoop

SpecTick == InitTick /\ [][NextTick]_vars

\* The loop on the Check screen from the moment the relay was switched on, an
\* iteration every 10 or 20 ms and no touch, long enough for the sweep to go
\* up, down and up again
MaxSweep == 75

InitSweep ==
    /\ bus = BusInit
    /\ slave = [scl |-> 1, sda |-> 1, byte |-> 0]
    /\ \E regs \in LoopRegs :
        LET b == MainBoot(regs, [IoOk EXCEPT !.adc = 4095])
            c == handle_touch_check([b EXCEPT !.ui.ui_state = "UI_CHECK"],
                                    150, 124, IoOk, 0)
        IN  ui = [c.ui EXCEPT !.ons = 1] /\ rtc = c.rtc /\ lm = c.lm
    /\ tp = MainTp

SweepLoop == LoopN({PenUp}, {10, 20}, MaxSweep)

NextSweep == SweepLoop

SpecSweep == InitSweep /\ [][NextSweep]_vars

\* The loop from its start, or from the moment the relay was switched on, with
\* the touches that open Setup and Project, hold the Hour "+" control and tap
\* the Relay button, an iteration every 10, 400 or 1000 ms
MaxDeadline == 4

InitDeadline == Init \/ InitSweep

DeadlineTouches == {PenUp, NavSetup, NavProject, HourPlus, RelayButton}

DeadlineLoop == LoopN(DeadlineTouches, {10, 400, 1000}, MaxDeadline)

NextDeadline == DeadlineLoop

SpecDeadline == InitDeadline /\ [][NextDeadline]_vars

(***************************************************************************)
(* The UI controller's properties.                                         *)
(***************************************************************************)

\* C16: the screen changes only in an iteration that processes the release of
\* a contact whose first sample was on a navigation button and whose last
\* sample is on a navigation button: never on a press, while the touch is
\* held, with no touch, after a press that began elsewhere, or through the
\* refresh, repeat or sweep that the same iteration may run
C16_ScreenChangesOnNavRelease ==
    [][ ui'.ui_state # ui.ui_state =>
            /\ ui.was_down = 1
            /\ ui'.phase = "release"
            /\ nav_button(ui.first_x, ui.first_y) # "none"
            /\ nav_button(ui.last_x, ui.last_y) # "none"
            /\ ui'.ui_state = nav_button(ui.last_x, ui.last_y) ]_vars

\* the first contact, a press on the Setup button released there, has taken the
\* UI from the start screen to Setup
C16_Witness ==
    /\ ui.phase = "release" /\ ui.nav = "UI_SETUP" /\ ui.ui_state = "UI_SETUP"
    /\ nav_button(ui.first_x, ui.first_y) = "UI_SETUP"
    /\ ui.iter = 2


\* C17: the release of a press that began on a navigation button always
\* navigates, and to the screen of the button the press began on, wherever the
\* contact ends
C17_NavigationFollowsPress ==
    [][ ( /\ ui'.phase = "release"
          /\ nav_button(ui.first_x, ui.first_y) # "none" )
        => /\ ui'.nav = nav_button(ui.first_x, ui.first_y)
           /\ ui'.ui_state = nav_button(ui.first_x, ui.first_y) ]_vars

\* what the loop does instead: the release is dispatched on the last sample of
\* the contact, so the navigation goes to the button the contact ends on and
\* there is none when it ends off the three buttons
C17_NavigationFollowsRelease ==
    [][ ( /\ ui'.phase = "release"
          /\ nav_button(ui.first_x, ui.first_y) # "none" )
        => /\ ui'.nav = nav_button(ui.last_x, ui.last_y)
           /\ ui'.nav # "none" => ui'.ui_state = ui'.nav
           /\ ui'.nav = "none" => ui'.ui_state = ui.ui_state ]_vars

\* a press that began on a navigation button was released on another one
C17_Witness ==
    /\ ui.phase = "release"
    /\ nav_button(ui.first_x, ui.first_y) # "none"
    /\ nav_button(ui.last_x, ui.last_y) # "none"
    /\ nav_button(ui.last_x, ui.last_y) # nav_button(ui.first_x, ui.first_y)


\* C18: while a contact that began on the Hour "+" control of the Setup screen
\* stays on it, the number of times the increment has been applied after T ms
\* of hold is 1 + floor(max(0, T - 400) / 100), T counted from the first sample
\* (setup_t0) to the sample just processed
C18_HoldCount ==
    ( /\ ui.was_down = 1 /\ ui.ui_state = "UI_SETUP"
      /\ ui.setup_active = "SH_HOUR_PLUS" /\ ui.stayed = 1 )
    => LET T == ui.tick - ui.setup_t0
       IN  ui.n_apply = 1 + (IF T > REPEAT_DELAY_MS
                             THEN (T - REPEAT_DELAY_MS) \div REPEAT_RATE_MS ELSE 0)

\* what the loop does instead: the first repeat falls on the first sample at or
\* after 400 ms, so a hold of T >= 400 ms has applied the increment at most
\* 2 + floor((T - 400) / 100) times, and exactly twice when T = 400
C18_HoldCountFromDelay ==
    ( /\ ui.was_down = 1 /\ ui.ui_state = "UI_SETUP"
      /\ ui.setup_active = "SH_HOUR_PLUS" /\ ui.stayed = 1 )
    => LET T == ui.tick - ui.setup_t0
       IN  /\ T < REPEAT_DELAY_MS => ui.n_apply = 1
           /\ T = REPEAT_DELAY_MS => ui.n_apply = 2
           /\ T >= REPEAT_DELAY_MS =>
                /\ ui.n_apply >= 2
                /\ ui.n_apply <= 2 + (T - REPEAT_DELAY_MS) \div REPEAT_RATE_MS

\* the Hour "+" control has been held for exactly 400 ms
C18_Witness ==
    /\ ui.was_down = 1 /\ ui.ui_state = "UI_SETUP"
    /\ ui.setup_active = "SH_HOUR_PLUS" /\ ui.stayed = 1
    /\ ui.tick - ui.setup_t0 = REPEAT_DELAY_MS


\* C19: each application of a Setup control increments exactly its field with
\* wraparound: Hour "+" takes hour h to (h + 1) mod 24, Minute "+" takes minute
\* m to (m + 1) mod 60 and sets second to 0, Threshold "+" takes threshold t to
\* t + 1 below 35 and to 20 at 35, and nothing else of the time and the
\* threshold changes
C19_ExactlyItsField ==
    [][ ui'.n_apply = ui.n_apply + 1 =>
          CASE ui'.applied = "SH_HOUR_PLUS" ->
                 /\ rtc'.hour = (rtc.hour + 1) % 24
                 /\ rtc'.minute = rtc.minute /\ rtc'.second = rtc.second
                 /\ ui'.temp_threshold = ui.temp_threshold
            [] ui'.applied = "SH_MIN_PLUS" ->
                 /\ rtc'.minute = (rtc.minute + 1) % 60
                 /\ rtc'.second = 0
                 /\ rtc'.hour = rtc.hour
                 /\ ui'.temp_threshold = ui.temp_threshold
            [] ui'.applied = "SH_TTH_PLUS" ->
                 /\ ui'.temp_threshold =
                        IF ui.temp_threshold < 35 THEN ui.temp_threshold + 1 ELSE 20
                 /\ rtc'.hour = rtc.hour /\ rtc'.minute = rtc.minute
                 /\ rtc'.second = rtc.second
            [] OTHER -> FALSE ]_vars

\* C19, as the code has it: Hour "+" also sets second to 0; an hour in 0..22
\* goes to the next one and any other to 0, a minute in 0..58 goes to the next
\* one and any other to 0, which is (h + 1) mod 24 and (m + 1) mod 60 for the
\* hours and minutes of a clock; Threshold "+" leaves the time alone
C19_ApplyEffect ==
    [][ ui'.n_apply = ui.n_apply + 1 =>
          CASE ui'.applied = "SH_HOUR_PLUS" ->
                 /\ rtc'.hour = IF rtc.hour < 23 THEN rtc.hour + 1 ELSE 0
                 /\ rtc.hour \in 0..23 => rtc'.hour = (rtc.hour + 1) % 24
                 /\ rtc'.second = 0
                 /\ rtc'.minute = rtc.minute
                 /\ ui'.temp_threshold = ui.temp_threshold
            [] ui'.applied = "SH_MIN_PLUS" ->
                 /\ rtc'.minute = IF rtc.minute < 59 THEN rtc.minute + 1 ELSE 0
                 /\ rtc.minute \in 0..59 => rtc'.minute = (rtc.minute + 1) % 60
                 /\ rtc'.second = 0
                 /\ rtc'.hour = rtc.hour
                 /\ ui'.temp_threshold = ui.temp_threshold
            [] ui'.applied = "SH_TTH_PLUS" ->
                 /\ ui'.temp_threshold =
                        IF ui.temp_threshold < 35 THEN ui.temp_threshold + 1 ELSE 20
                 /\ rtc'.hour = rtc.hour /\ rtc'.minute = rtc.minute
                 /\ rtc'.second = rtc.second
                 /\ rtc'.time_from_rtc = rtc.time_from_rtc
                 /\ ui'.time_dirty = ui.time_dirty
            [] OTHER -> FALSE ]_vars

\* Hour "+" has been applied to 23:59:59 and Threshold "+" to 35
C19_Witness ==
    /\ ui.n_apply = 2
    /\ rtc.hour = 0 /\ rtc.minute = 59 /\ rtc.second = 0
    /\ ui.temp_threshold = 20


\* C20: an iteration that applies Hour "+" or Minute "+" leaves time_from_rtc = 0
\* and time_dirty = 1 and does not touch the bus or the chip's registers; the
\* DS1307 is written only in an iteration that processes a release taking the
\* UI from Setup to Check or Project with an edit pending, hence never on a
\* press or a repeat
C20_EditsAreCommittedOnLeaving ==
    [][ /\ ui'.applied \in {"SH_HOUR_PLUS", "SH_MIN_PLUS"} =>
             /\ rtc'.time_from_rtc = 0 /\ ui'.time_dirty = 1
             /\ ui'.phase \in {"press", "hold"}
             /\ ui'.wrote = 0 /\ "rtc" \notin ui'.io
             /\ rtc'.regs = rtc.regs /\ rtc'.wbuf = rtc.wbuf
        /\ (ui'.wrote = 1 \/ rtc'.regs # rtc.regs \/ rtc'.wbuf # rtc.wbuf) =>
             /\ ui'.wrote = 1
             /\ ui'.phase = "release"
             /\ ui'.applied = "SH_NONE"
             /\ ui.ui_state = "UI_SETUP"
             /\ ui'.ui_state \in {"UI_CHECK", "UI_PROJECT"}
             /\ ui.time_dirty = 1 /\ ui'.time_dirty = 0 ]_vars

\* the hour was edited from 23 to 0 on the Setup screen and the release that
\* left Setup has written it to the chip
C20_Witness ==
    /\ ui.wrote = 1 /\ ui.phase = "release" /\ rtc.st = "HAL_OK"
    /\ rtc.regs = <<0, 89, 0>> /\ rtc.hour = 0
    /\ ui.time_dirty = 0 /\ rtc.time_from_rtc = 1


\* C21: the time is written to the chip exactly in an iteration that processes
\* a release taking the UI from Setup to Check or Project while time_dirty is
\* set; a release on the Setup button while on Setup writes nothing and keeps
\* the flag; after the attempt time_dirty is 0 whatever the bus answered,
\* time_from_rtc is 1 if the write succeeded and still 0 if it failed; with
\* time_dirty = 0 nothing is written, so a failed write is not repeated
C21_CommitSemantics ==
    [][ LET exit == /\ ui'.phase = "release" /\ ui.ui_state = "UI_SETUP"
                    /\ ui'.nav \in {"UI_CHECK", "UI_PROJECT"}
        IN  /\ ui'.wrote = 1 <=> (exit /\ ui.time_dirty = 1)
            /\ ui'.wrote = 0 => rtc'.regs = rtc.regs /\ rtc'.wbuf = rtc.wbuf
            /\ (ui.ui_state = "UI_SETUP" /\ ui'.nav = "UI_SETUP") =>
                    /\ ui'.wrote = 0 /\ ui'.time_dirty = ui.time_dirty
                    /\ rtc'.time_from_rtc = rtc.time_from_rtc
            /\ ui'.wrote = 1 =>
                    /\ ui'.time_dirty = 0
                    /\ rtc'.op = "WriteTime"
                    /\ rtc'.st = "HAL_OK" =>
                            rtc'.time_from_rtc = 1 /\ rtc'.regs = rtc'.wbuf
                    /\ rtc'.st # "HAL_OK" =>
                            /\ rtc.time_from_rtc = 0 /\ rtc'.time_from_rtc = 0
                            /\ rtc'.regs = rtc.regs ]_vars

\* an edit of the hour was followed by a departure from Setup whose write
\* failed; the UI went back to Setup and has now left it again without an edit:
\* nothing was written the second time
C21_Witness ==
    /\ ui.phase = "release" /\ ui.prev = "UI_SETUP"
    /\ ui.nav \in {"UI_CHECK", "UI_PROJECT"}
    /\ ui.wrote = 0 /\ ui.writes = 1 /\ ui.exits = 1
    /\ rtc.op = "WriteTime" /\ rtc.st = "HAL_ERROR"
    /\ ui.time_dirty = 0 /\ rtc.time_from_rtc = 0


\* C22: a release that takes the UI from Setup to Project or Check after an
\* Hour or Minute edit writes the time to the chip exactly once; a navigation
\* to Project or Check with no such edit since the last departure from Setup
\* writes nothing; so at every moment of a run the writes number no more than
\* the departures from Setup that followed an edit
C22_OneWritePerEditedExit ==
    [][ LET exit == /\ ui'.phase = "release" /\ ui.ui_state = "UI_SETUP"
                    /\ ui'.nav \in {"UI_CHECK", "UI_PROJECT"}
        IN  /\ (exit /\ ui.edited = 1) =>
                    /\ ui'.writes = ui.writes + 1
                    /\ ui'.wrote = 1 /\ ui'.edited = 0
            /\ (ui'.nav \in {"UI_CHECK", "UI_PROJECT"} /\ ui.edited = 0) =>
                    /\ ui'.writes = ui.writes /\ ui'.wrote = 0
                    /\ rtc'.regs = rtc.regs /\ rtc'.wbuf = rtc.wbuf
            /\ ui'.writes <= ui'.exits ]_vars

\* the hour was edited and written on the way to Project; the UI went back to
\* Setup and on to Project again with no edit, and the count of writes is
\* still one
C22_Witness ==
    /\ ui.phase = "release" /\ ui.prev = "UI_SETUP" /\ ui.nav = "UI_PROJECT"
    /\ ui.wrote = 0 /\ ui.writes = 1 /\ ui.exits = 1 /\ ui.edited = 0
    /\ rtc.op = "WriteTime" /\ rtc.st = "HAL_OK" /\ rtc.time_from_rtc = 1
    /\ rtc.regs = <<0, 89, 0>>


\* C23: the iteration that switches the relay on sets the angle to 0 and the
\* direction to +1, writes the 0 degree pulse and arms the sweep, which does
\* not step in that iteration; the one that switches it off disarms the sweep
\* and leaves angle, direction and pulse as they were; and while the sweep
\* stays disarmed the angle and the direction do not change
C23_RelayToggle ==
    [][ /\ (ui.relay_on = 0 /\ ui'.relay_on = 1) =>
                /\ ui'.servo_enable = 1 /\ ui'.servo_angle = 0
                /\ ui'.servo_dir = 1 /\ ui'.swept = 0
                /\ ui'.pwm = 600 /\ ui'.servo_t0_ms = ui'.tick
        /\ (ui.relay_on = 1 /\ ui'.relay_on = 0) =>
                /\ ui'.servo_enable = 0 /\ ui'.swept = 0
                /\ ui'.servo_angle = ui.servo_angle
                /\ ui'.servo_dir = ui.servo_dir /\ ui'.pwm = ui.pwm
        /\ (ui.servo_enable = 0 /\ ui'.servo_enable = 0) =>
                /\ ui'.servo_angle = ui.servo_angle
                /\ ui'.servo_dir = ui.servo_dir /\ ui'.pwm = ui.pwm
        /\ ui'.relay_on # ui.relay_on =>
                ui'.phase = "release" /\ ui.ui_state = "UI_CHECK" ]_vars

\* the relay was switched on, off and on again in six iterations 9 ms apart,
\* too close for a sweep step: the angle is 0 and the direction +1
C23_Witness ==
    /\ ui.ons = 2 /\ ui.relay_on = 1 /\ ui.servo_enable = 1
    /\ ui.iter = 8 /\ ui.tick = 72
    /\ ui.servo_angle = 0 /\ ui.servo_dir = 1 /\ ui.steps = 0


\* C24: the refresh runs only in an iteration that ends on the Project screen
\* and began there; it runs no earlier than 1000 ms after the last entry into
\* Project by a navigation release and no earlier than 1000 ms after the
\* refresh before it; an iteration that has refreshed leaves the deadline
\* 1000 ms ahead, so it refreshes once
C24_RefreshDeadline ==
    [][ ui'.refreshed = 1 =>
            /\ ui'.ui_state = "UI_PROJECT" /\ ui.ui_state = "UI_PROJECT"
            /\ ui'.nav # "UI_PROJECT"
            /\ ui'.tick - ui.t_proj >= 1000
            /\ ui'.refreshes = ui.refreshes + 1
            /\ ui'.proj_t0 = ui'.tick ]_vars

\* Project was entered, the first refresh came 1000 ms later and the second
\* 1000 ms after the first
C24_Witness ==
    /\ ui.refreshed = 1 /\ ui.refreshes = 2 /\ ui.iter = 4
    /\ ui.ui_state = "UI_PROJECT"


\* C25: a refresh that finds time_from_rtc set reads the chip; if the read
\* succeeds hour, minute and second become the values read and are printed, if
\* it fails they stay as they were and the fault text is printed in place of
\* the time; time_from_rtc is the same after the refresh in both cases
C25_RefreshFromRtc ==
    [][ (ui'.refreshed = 1 /\ rtc.time_from_rtc = 1) =>
            LET t == DS1307_Decode(rtc.regs)
            IN  /\ "rtc" \in ui'.io /\ rtc'.op = "ReadTime"
                /\ rtc'.time_from_rtc = rtc.time_from_rtc
                /\ rtc'.regs = rtc.regs
                /\ rtc'.st = "HAL_OK" =>
                        /\ rtc'.hour = t.hours /\ rtc'.minute = t.minutes
                        /\ rtc'.second = t.seconds
                        /\ ui'.time_text =
                               ValueText(<<t.hours, t.minutes, t.seconds>>)
                /\ rtc'.st # "HAL_OK" =>
                        /\ rtc'.hour = rtc.hour /\ rtc'.minute = rtc.minute
                        /\ rtc'.second = rtc.second
                        /\ ui'.time_text = FaultText ]_vars

\* the chip, holding 23:59:00, answered neither the read before the loop nor
\* the one of this refresh: the time is still the 12:34:56 of the statics and
\* the fault text is on the screen
C25_Witness ==
    /\ ui.refreshed = 1 /\ rtc.op = "ReadTime" /\ rtc.st = "HAL_ERROR"
    /\ rtc.time_from_rtc = 1
    /\ rtc.hour = 12 /\ rtc.minute = 34 /\ rtc.second = 56
    /\ DS1307_Decode(rtc.regs).hours = 23
    /\ ui.time_text = FaultText


\* C26: a refresh that finds time_from_rtc = 0 does not read the chip and
\* advances the time by one second: from a time h:m:s of the day the new time
\* is the decomposition of (3600h + 60m + s + 1) mod 86400 into hours, minutes
\* and seconds, which is what is printed, and time_from_rtc stays 0
C26_SoftwareSecond ==
    [][ (ui'.refreshed = 1 /\ rtc.time_from_rtc = 0) =>
            LET n == (3600 * rtc.hour + 60 * rtc.minute + rtc.second + 1) % 86400
            IN  /\ "rtc" \notin ui'.io
                /\ rtc'.op = rtc.op /\ rtc'.st = rtc.st /\ rtc'.regs = rtc.regs
                /\ rtc'.time_from_rtc = 0
                /\ ( /\ rtc.hour \in 0..23 /\ rtc.minute \in 0..59
                      /\ rtc.second \in 0..59 ) =>
                        /\ rtc'.hour = n \div 3600
                        /\ rtc'.minute = (n % 3600) \div 60
                        /\ rtc'.second = n % 60
                /\ ui'.time_text =
                        ValueText(<<rtc'.hour, rtc'.minute, rtc'.second>>) ]_vars

\* the software clock stood at 23:59:59 and the first refresh has taken it to
\* 00:00:00
C26_Witness ==
    /\ ui.refreshed = 1 /\ ui.iter = 1 /\ rtc.time_from_rtc = 0
    /\ rtc.hour = 0 /\ rtc.minute = 0 /\ rtc.second = 0
    /\ ui.time_text = ValueText(<<0, 0, 0>>)


\* C27: whenever an iteration of the loop has read the clock chip or the
\* temperature sensor and the read failed, the text it printed for that reading
\* is the fault text, not a time or a temperature: on the Check screen's Time
\* and Temp buttons, on entering Project and on every refresh
C27_FailuresAreSurfaced ==
    ui.phase # "boot" =>
        /\ ( /\ "rtc" \in ui.io /\ rtc.op \in {"Refresh", "ReadTime"}
              /\ rtc.st # "HAL_OK" ) => ui.time_text = FaultText
        /\ ("lm" \in ui.io /\ lm.st # "HAL_OK") => ui.temp_text = FaultText

\* what the loop does instead: the fault text is printed by the refresh only;
\* the Time and Temp buttons and the entry into Project print the time and the
\* temperature held in the statics whether the read succeeded or not
C27_FaultTextOnRefreshOnly ==
    ui.phase # "boot" =>
        /\ ui.refreshed = 1 =>
              /\ (rtc.time_from_rtc = 1 /\ rtc.st # "HAL_OK") <=>
                      ui.time_text = FaultText
              /\ lm.st # "HAL_OK" <=> ui.temp_text = FaultText
        /\ ui.refreshed = 0 =>
              /\ ui.time_text \in {NoText,
                                    ValueText(<<rtc.hour, rtc.minute, rtc.second>>)}
              /\ ui.temp_text \in {NoText,
                                    ValueText(<<temp_scaled(lm.temp_c, 10)>>),
                                    ValueText(<<temp_scaled(lm.temp_c, 100)>>)}
              /\ "lm" \in ui.io => ui.temp_text # NoText
              /\ ("rtc" \in ui.io /\ ui.wrote = 0) => ui.time_text # NoText

\* the Time button of the Check screen was tapped, the chip did not answer
\* (nor had it before the loop), and the result line shows 12:34:56
C27_Witness ==
    /\ ui.phase = "release" /\ ui.ui_state = "UI_CHECK"
    /\ rtc.op = "Refresh" /\ rtc.st = "HAL_ERROR" /\ "rtc" \in ui.io
    /\ ui.time_text = ValueText(<<12, 34, 56>>)


\* C28: N sweep steps after the relay was switched on the angle is r if
\* r <= 180 and 360 - r otherwise, r = (5 N) mod 360: 180 after 36 steps, 160
\* after 40, 0 after 72, 5 after 73
C28_TriangleWave ==
    ui.relay_on = 1 =>
        LET r == (5 * ui.steps) % 360
        IN  /\ ui.servo_angle = IF r <= 180 THEN r ELSE 360 - r
            /\ ui.steps = 36 => ui.servo_angle = 180
            /\ ui.steps = 40 => ui.servo_angle = 160
            /\ ui.steps = 72 => ui.servo_angle = 0
            /\ ui.steps = 73 => ui.servo_angle = 5

\* the sweep has made 73 steps, up to 180, down to 0 and one up again
C28_Witness ==
    /\ ui.relay_on = 1 /\ ui.servo_enable = 1 /\ ui.steps = 73
    /\ ui.servo_angle = 5 /\ ui.servo_dir = 1


\* C29: the angle is always a multiple of 5 in 0..180 and the direction +1 or
\* -1; a sweep step leaves the direction -1 if it reaches 180, +1 if it
\* reaches 0 and as it was otherwise, so the direction turns to -1 only on a
\* step that reaches 180 and a step turns it to +1 only by reaching 0; the
\* compare register always holds 600 + 10 * angle, which lies in 600..2400
C29_AngleDirectionPulse ==
    [][ /\ ui'.servo_angle \in 0..180 /\ ui'.servo_angle % 5 = 0
        /\ ui'.servo_dir \in {1, -1}
        /\ ui'.pwm = 600 + 10 * ui'.servo_angle
        /\ ui'.pwm \in 600..2400
        /\ ui'.servo_angle = 0 => ui'.pwm = 600
        /\ ui'.servo_angle = 180 => ui'.pwm = 2400
        /\ ui'.swept = 1 =>
                /\ ui'.servo_angle = 180 => ui'.servo_dir = -1
                /\ ui'.servo_angle = 0 => ui'.servo_dir = 1
                /\ ui'.servo_angle \notin {0, 180} => ui'.servo_dir = ui.servo_dir
                /\ ui'.servo_angle = ui.servo_angle + 5 * ui.servo_dir
        /\ (ui.servo_dir = 1 /\ ui'.servo_dir = -1) =>
                ui'.swept = 1 /\ ui'.servo_angle = 180
        /\ (ui.servo_dir = -1 /\ ui'.servo_dir = 1 /\ ui'.swept = 1) =>
                ui'.servo_angle = 0 ]_vars

\* the 36th step has reached 180 degrees: the direction is -1 and the compare
\* register holds 2400
C29_Witness ==
    /\ ui.swept = 1 /\ ui.steps = 36 /\ ui.servo_angle = 180
    /\ ui.servo_dir = -1 /\ ui.pwm = 2400


\* C30: each of the three deadlines is decided in every iteration from its own
\* timer alone. The sweep steps, once, exactly when it is armed after the
\* touch has been processed and 20 ms have passed since it was armed or last
\* stepped, on any screen, in any phase of a touch, with or without a refresh
\* or a repeat in the iteration; while it is disarmed the angle stays. The
\* refresh runs exactly when the iteration is on Project and 1000 ms have
\* passed since proj_t0, the repeat exactly when the control pressed first is
\* still held 400 ms after the press and 100 ms after the last increment:
\* neither condition looks at the sweep
C30_IndependentDeadlines ==
    [][ /\ ui'.swept = 1 <=>
                /\ ui.servo_enable = 1 /\ ui'.servo_enable = 1
                /\ ui'.tick - ui.servo_t0_ms >= 20
        /\ ui'.swept = 1 =>
                /\ ui'.steps = ui.steps + 1
                /\ ui'.servo_angle \in {ui.servo_angle + 5, ui.servo_angle - 5}
                /\ ui'.servo_t0_ms = ui'.tick
        /\ ui'.swept = 0 =>
                \/ ui'.servo_angle = ui.servo_angle
                \/ ui.relay_on = 0 /\ ui'.relay_on = 1
        /\ (ui.servo_enable = 0 /\ ui'.servo_enable = 0) =>
                ui'.servo_angle = ui.servo_angle /\ ui'.swept = 0
        /\ ui'.refreshed = 1 <=>
                /\ ui'.ui_state = "UI_PROJECT" /\ ui'.nav = "none"
                /\ ui'.tick - ui.proj_t0 >= 1000
        /\ (ui'.phase = "hold" /\ ui'.applied # "SH_NONE") <=>
                /\ ui'.phase = "hold" /\ ui.ui_state = "UI_SETUP"
                /\ ui.setup_active # "SH_NONE"
                /\ setup_hit_test(ui'.last_x, ui'.last_y) = ui.setup_active
                /\ ui'.tick - ui.setup_t0 >= REPEAT_DELAY_MS
                /\ ui'.tick - ui.setup_tlast >= REPEAT_RATE_MS ]_vars

\* with the relay on and a finger on the screen, one iteration on the Project
\* screen has both refreshed and stepped the sweep
C30_Witness ==
    /\ ui.swept = 1 /\ ui.refreshed = 1 /\ ui.was_down = 1
    /\ ui.ui_state = "UI_PROJECT" /\ ui.servo_enable = 1


\* C31: the temperature LM75_ReadCelsius returns is decided by the top 9 bits
\* of the register: it is what the same read returns with the low 7 bits of
\* the register cleared, the sign-extended 9-bit field in units of half a
\* degree, that is four eighths
C31_TopNineBits ==
    (lm.op = "ReadCelsius" /\ lm.st = "HAL_OK") =>
        LET raw == 256 * lm.reg[1] + lm.reg[2]
            s16 == IF raw >= 32768 THEN raw - 65536 ELSE raw
            f9  == (s16 - (s16 % 128)) \div 128
        IN  /\ lm.out_c = LM75_Decode(<<lm.reg[1], lm.reg[2] - (lm.reg[2] % 128)>>)
            /\ lm.out_c = 4 * f9

\* what the read does instead: the shift by 5 keeps the top 11 bits, so bits 6
\* and 5 of the low byte count an eighth and a quarter of a degree and only
\* the low 5 bits are dropped
C31_TopElevenBits ==
    (lm.op = "ReadCelsius" /\ lm.st = "HAL_OK") =>
        LET raw == 256 * lm.reg[1] + lm.reg[2]
            s16 == IF raw >= 32768 THEN raw - 65536 ELSE raw
        IN  /\ lm.out_c = (s16 - (s16 % 32)) \div 32
            /\ lm.out_c = LM75_Decode(<<lm.reg[1], lm.reg[2] - (lm.reg[2] % 32)>>)

\* register 0x0020, its top 9 bits all 0, read as one eighth of a degree
C31_Witness ==
    /\ lm.op = "ReadCelsius" /\ lm.st = "HAL_OK"
    /\ lm.reg = <<0, 32>> /\ lm.out_c = 1


\* C32: after XPT_Init with 0, 90, 180 or 270 degrees, map_to_screen maps the
\* normalized sample (nx, ny) to x = nx, y = ny for 0, x = ny, y = nx for 90,
\* x = 1 - nx, y = 1 - ny for 180 and x = 1 - ny, y = 1 - nx for 270, scaled
\* by width - 1 and height - 1
C32_FourOrientations ==
    (TpMapped /\ ~TpDegenerate /\ tp.rot_deg \in {0, 90, 180, 270}) =>
        tp.ms \in
          { LET u == CASE tp.rot_deg = 0   -> nx
                       [] tp.rot_deg = 90  -> ny
                       [] tp.rot_deg = 180 -> F32_OneMinus(nx)
                       [] tp.rot_deg = 270 -> F32_OneMinus(ny)
                v == CASE tp.rot_deg = 0   -> ny
                       [] tp.rot_deg = 90  -> nx
                       [] tp.rot_deg = 180 -> F32_OneMinus(ny)
                       [] tp.rot_deg = 270 -> F32_OneMinus(nx)
            IN  [ok |-> 1, sx |-> F32_MulTrunc(u, tp.out_w - 1),
                           sy |-> F32_MulTrunc(v, tp.out_h - 1)] :
              nx \in map_norm(tp.rx, tp.cal_x_min, tp.cal_x_max),
              ny \in map_norm(tp.ry, tp.cal_y_min, tp.cal_y_max) }

\* what the driver does instead: XPT_Init takes the orientation as a uint8_t,
\* so 270 is stored as 14, which is none of the four cases of the switch and
\* gets the mapping of 0 degrees; 0, 90 and 180 are mapped as said
C32_ThreeOrientations ==
    (TpMapped /\ ~TpDegenerate /\ tp.rot_deg \in {0, 90, 180, 270}) =>
        /\ tp.rot = tp.rot_deg % 256
        /\ tp.ms \in
              { LET u == CASE tp.rot_deg \in {0, 270} -> nx
                           [] tp.rot_deg = 90  -> ny
                           [] tp.rot_deg = 180 -> F32_OneMinus(nx)
                    v == CASE tp.rot_deg \in {0, 270} -> ny
                           [] tp.rot_deg = 90  -> nx
                           [] tp.rot_deg = 180 -> F32_OneMinus(ny)
                IN  [ok |-> 1, sx |-> F32_MulTrunc(u, tp.out_w - 1),
                               sy |-> F32_MulTrunc(v, tp.out_h - 1)] :
                  nx \in map_norm(tp.rx, tp.cal_x_min, tp.cal_x_max),
                  ny \in map_norm(tp.ry, tp.cal_y_min, tp.cal_y_max) }

\* after XPT_Init(270) on the 320 x 240 screen with the default calibration,
\* the raw sample (350, 350) maps to (0, 0), not to (319, 239)
C32_Witness ==
    /\ TpMapped /\ tp.rot_deg = 270 /\ tp.rot = 14
    /\ tp.out_w = 320 /\ tp.out_h = 240
    /\ tp.cal_x_min = 350 /\ tp.cal_x_max = 3800
    /\ tp.cal_y_min = 350 /\ tp.cal_y_max = 3800
    /\ tp.rx = 350 /\ tp.ry = 350 /\ tp.ms = [ok |-> 1, sx |-> 0, sy |-> 0]


\* ---------------------------------------------------------------------------
\* Contacts on the Setup screen (SpecHold)
\* ---------------------------------------------------------------------------

\* iterations explored on the Setup screen
MaxHold == 5

\* the loop after a tap on the Setup button: the first sample on the button
\* 100 ms after the start, the pen up 100 ms later
InitHold ==
    /\ bus = BusInit
    /\ slave = [scl |-> 1, sda |-> 1, byte |-> 0]
    /\ \E regs \in LoopRegs :
        LET b == MainBoot(regs, [IoOk EXCEPT !.adc = 4095])
            c == Iteration(b, [pt |-> [x |-> 158, y |-> 26, pressed |-> 1],
                               rtc_st |-> IoOk.rtc_st, lm_st |-> IoOk.lm_st,
                               adc |-> IoOk.adc], 100)
            d == Iteration(c, [pt |-> [x |-> 0, y |-> 0, pressed |-> 0],
                               rtc_st |-> IoOk.rtc_st, lm_st |-> IoOk.lm_st,
                               adc |-> IoOk.adc], 200)
        IN  ui = [d.ui EXCEPT !.iter = 0] /\ rtc = d.rtc /\ lm = d.lm
    /\ tp = MainTp

HoldTouches == {PenUp, NavSetup, HourPlus, MinPlus, Blank}

\* an iteration every 50 or 350 ms: a held control is sampled before, at and
\* after the repeat delay, and between two repeats
HoldLoop == LoopN(HoldTouches, {50, 350}, MaxHold)

NextHold == HoldLoop

SpecHold == InitHold /\ [][NextHold]_vars

\* ---------------------------------------------------------------------------
\* Hit testing of the Setup screen, point by point (SpecHit)
\* ---------------------------------------------------------------------------

\* the screen, main.c lines 56-57
SCR_W == 320
SCR_H == 240

\* the Setup screen with a point of the screen about to be hit-tested
InitHit ==
    /\ bus = BusInit
    /\ slave = [scl |-> 1, sda |-> 1, byte |-> 0]
    /\ rtc = RtcBoot /\ lm = LmBoot
    /\ ui = [UiBoot EXCEPT !.ui_state = "UI_SETUP"]
    /\ \E x \in 0..(SCR_W - 1), y \in 0..(SCR_H - 1) :
        tp = [MainTp EXCEPT !.pt = [x |-> x, y |-> y, pressed |-> 1]]

\* setup_row_from_y(y), setup_hit_test(x, y) and the test of the three
\* navigation buttons on the point
SetupHitTest ==
    /\ ui.phase = "boot"
    /\ ui' = [ui EXCEPT !.phase = "hit",
                        !.row = setup_row_from_y(tp.pt.y),
                        !.setup_active = setup_hit_test(tp.pt.x, tp.pt.y),
                        !.nav = nav_button(tp.pt.x, tp.pt.y)]
    /\ UNCHANGED <<bus, slave, rtc, lm, tp>>

NextHit == SetupHitTest

SpecHit == InitHit /\ [][NextHit]_vars

\* ---------------------------------------------------------------------------
\* The threshold over a visit to Setup (SpecTth)
\* ---------------------------------------------------------------------------

\* iterations explored: a press on Threshold "+" held through eight repeats,
\* the release, and a tap on Check
MaxTth == 12

TthTouches == {PenUp, NavCheck, NavSetup, HourPlus, TthPlus}

\* the loop from the Setup screen on, an iteration every 400 ms, so that every
\* sample of a held control applies it
TthLoop == LoopN(TthTouches, {400}, MaxTth)

NextTth == TthLoop

SpecTth == InitHold /\ [][NextTth]_vars

\* ---------------------------------------------------------------------------
\* The seconds of a committed time (SpecSec)
\* ---------------------------------------------------------------------------

\* iterations explored
MaxSec == 8

\* the loop from its start with the chip at 23:59:56
InitSec ==
    /\ bus = BusInit
    /\ slave = [scl |-> 1, sda |-> 1, byte |-> 0]
    /\ LET s == MainBoot(<<86, 89, 35>>, [IoOk EXCEPT !.adc = 4095])
       IN  ui = s.ui /\ rtc = s.rtc /\ lm = s.lm
    /\ tp = MainTp

SecTouches == {PenUp, NavCheck, NavSetup, NavProject, HourPlus, MinPlus}

\* an iteration every second, so that the Project screen refreshes each time
SecLoop == LoopN(SecTouches, {1000}, MaxSec)

NextSec == SecLoop

SpecSec == InitSec /\ [][NextSec]_vars

\* ---------------------------------------------------------------------------
\* XPT_ReadRaw read by read (SpecRaw)
\* ---------------------------------------------------------------------------

\* control bytes of the two conversions, i2c_sw.c lines 158-159
CMD_X == 208
CMD_Y == 144

\* pairs averaged by XPT_ReadRaw, line 211
N == 6

\* calls of XPT_ReadRaw explored
MaxCalls == 2

\* a window that counts the discarded pair too
window_add_All(s, k, v) == s + v

\* the value of read12 from the two bytes received, line 202
read12(rx1, rx2) == ((rx1 * 32) % 65536) + (rx2 \div 8)

\* the control byte of the k-th read12 of a call, lines 213-218: Y then X
read_cmd(k) == IF k % 2 = 1 THEN CMD_Y ELSE CMD_X

\* a sum after the k-th read returned v, lines 213-221: the first two reads are
\* cast to void, the later ones are added
window_add(s, k, v) == IF k > 2 THEN s + v ELSE s

\* the two bytes that carry the conversion v, with the three low bits set
raw_bytes(v) == <<v \div 32, (v % 32) * 8 + 7>>

\* answers of the controller to the 14 reads of one call: the discarded pair
\* reads d, the j-th pair of the window reads y0 + j * ys and x0 + j * xs
RawFeeds ==
    { [k \in 1..(2 * N + 2) |->
         IF k <= 2 THEN raw_bytes(d)
         ELSE IF k % 2 = 1 THEN raw_bytes(y0 + ((k - 1) \div 2) * ys)
         ELSE raw_bytes(x0 + ((k - 2) \div 2) * xs)] :
        d \in {0, 8191}, y0 \in {0, 4000}, ys \in {0, 1}, x0 \in {100, 8185},
        xs \in {0, 1} }

CsEvent(level) == [e |-> "cs", c |-> level, v |-> 0]
XferEvent(cmd, v) == [e |-> "xfer", c |-> cmd, v |-> v]

\* XPT_ReadRaw(&rx, &ry), lines 206-211: the press-detect line is sampled once;
\* high returns 0 at once, low clears the sums and goes on to the reads
ReadRaw_Enter ==
    /\ tp.rr.pc \in {"idle", "returned"}
    /\ tp.rr.calls < MaxCalls
    /\ \E pen \in {0, 1}, feed \in RawFeeds :
        tp' = [tp EXCEPT !.rr =
                 [@ EXCEPT !.pen = pen, !.feed = feed, !.k = 0, !.sx = 0, !.sy = 0,
                           !.old_x = tp.rr.raw_x, !.old_y = tp.rr.raw_y, !.log = <<>>,
                           !.calls = @ + 1,
                           !.ret = 0,
                           !.pc = IF pen = 1 THEN "returned" ELSE "reads"]]
    /\ UNCHANGED <<bus, slave, rtc, lm, ui>>

\* one read12, lines 191-203: chip-select low, the control byte out, two bytes
\* in, chip-select high; in XPT_ReadRaw, lines 213-221, the first pair is
\* dropped and each later read is added to the sum of its axis
ReadRaw_Read12 ==
    /\ tp.rr.pc = "reads"
    /\ tp.rr.k < 2 * N + 2
    /\ LET k == tp.rr.k + 1
           cmd == read_cmd(k)
           v == read12(tp.rr.feed[k][1], tp.rr.feed[k][2])
       IN  tp' = [tp EXCEPT !.rr =
                 [@ EXCEPT !.k = k, !.cs = 1,
                           !.log = @ \o <<CsEvent(0), XferEvent(cmd, v), CsEvent(1)>>,
                           !.sy = IF cmd = CMD_Y THEN window_add(@, k, v) ELSE @,
                           !.sx = IF cmd = CMD_X THEN window_add(@, k, v) ELSE @]]
    /\ UNCHANGED <<bus, slave, rtc, lm, ui>>

\* lines 222-224: the two means are stored through the pointers, which the
\* callers (lines 272 and 289) never pass null, and 1 is returned
ReadRaw_Return ==
    /\ tp.rr.pc = "reads"
    /\ tp.rr.k = 2 * N + 2
    /\ tp' = [tp EXCEPT !.rr =
                 [@ EXCEPT !.raw_x = (tp.rr.sx \div N) % 65536,
                           !.raw_y = (tp.rr.sy \div N) % 65536,
                           !.ret = 1, !.pc = "returned"]]
    /\ UNCHANGED <<bus, slave, rtc, lm, ui>>

NextRaw == ReadRaw_Enter \/ ReadRaw_Read12 \/ ReadRaw_Return

SpecRaw == Init /\ [][NextRaw]_vars

\* the value the j-th transfer of the call carried
RawXfer(j) == tp.rr.log[3 * j - 1].v

\* C33: XPT_ReadRaw with the press-detect line high returns 0 with no transfer
\* and its outputs untouched; with the line low it makes exactly 14 reads,
\* Y, X, Y, X, ..., each between a chip-select low and a chip-select high, and
\* returns 1 with, per axis, the floor of the sum of the last 6 samples of that
\* axis over 6; chip-select is high whenever it has returned
C33_ReadRaw ==
    (tp.rr.pc = "returned") =>
        /\ tp.rr.cs = 1
        /\ (tp.rr.pen = 1) =>
              /\ tp.rr.ret = 0 /\ tp.rr.log = <<>>
              /\ tp.rr.raw_x = tp.rr.old_x /\ tp.rr.raw_y = tp.rr.old_y
        /\ (tp.rr.pen = 0) =>
              /\ tp.rr.ret = 1 /\ Len(tp.rr.log) = 3 * 14
              /\ \A j \in 1..14 :
                    /\ tp.rr.log[3 * j - 2] = [e |-> "cs", c |-> 0, v |-> 0]
                    /\ tp.rr.log[3 * j - 1].e = "xfer"
                    /\ tp.rr.log[3 * j - 1].c = (IF j % 2 = 1 THEN 144 ELSE 208)
                    /\ tp.rr.log[3 * j - 1].v =
                          tp.rr.feed[j][1] * 32 + tp.rr.feed[j][2] \div 8
                    /\ tp.rr.log[3 * j] = [e |-> "cs", c |-> 1, v |-> 0]
              /\ tp.rr.raw_y = (RawXfer(3) + RawXfer(5) + RawXfer(7) + RawXfer(9)
                                  + RawXfer(11) + RawXfer(13)) \div 6
              /\ tp.rr.raw_x = (RawXfer(4) + RawXfer(6) + RawXfer(8) + RawXfer(10)
                                  + RawXfer(12) + RawXfer(14)) \div 6

\* a second call found the pen down after a first one had returned a point: the
\* discarded pair read 8191, the window read 1..6 on Y (mean 3, sum 21) and
\* 8186..8191 on X (mean 8188)
C33_Witness ==
    /\ tp.rr.pc = "returned" /\ tp.rr.pen = 0 /\ tp.rr.ret = 1 /\ tp.rr.calls = 2
    /\ RawXfer(1) = 8191 /\ RawXfer(2) = 8191
    /\ tp.rr.sy = 21 /\ tp.rr.raw_y = 3
    /\ tp.rr.raw_x = 8188 /\ tp.rr.old_x # tp.rr.raw_x


\* the control the contact in progress began on: none on a navigation button
FirstControl ==
    IF nav_button(ui'.first_x, ui'.first_y) # "none" THEN "SH_NONE"
    ELSE setup_hit_test(ui'.first_x, ui'.first_y)

\* C34: in a contact on the Setup screen the press is seen once; a control hit
\* by its first sample is applied once at once; each later application comes
\* at least 400 ms after the press and at least 100 ms after the one before, in
\* an iteration whose sample hits the control chosen at the press, one at most
\* per iteration; the chosen control stays the same through the contact, and a
\* contact begun on a navigation button or off every control applies nothing
C34_PressAndRepeat ==
    [][ ui.ui_state = "UI_SETUP" =>
        /\ (ui'.phase = "press") =>
              /\ ui.phase \notin {"press", "hold"}
              /\ ui'.applied = FirstControl
              /\ ui'.n_apply = (IF FirstControl = "SH_NONE" THEN 0 ELSE 1)
              /\ ui'.setup_active = FirstControl
        /\ (ui'.phase = "hold") =>
              /\ ui.phase \in {"press", "hold"}
              /\ ui'.setup_active = ui.setup_active
              /\ ui'.setup_active = FirstControl
              /\ ui'.first_x = ui.first_x /\ ui'.first_y = ui.first_y
              /\ ui'.n_apply \in {ui.n_apply, ui.n_apply + 1}
              /\ (ui'.n_apply = ui.n_apply) <=> (ui'.applied = "SH_NONE")
              /\ (ui'.applied # "SH_NONE") =>
                    /\ ui'.applied = FirstControl
                    /\ setup_hit_test(ui'.last_x, ui'.last_y) = FirstControl
                    /\ ui'.tick - ui.t_press >= 400
                    /\ ui'.tick - ui.t_apply >= 100
              /\ (FirstControl = "SH_NONE") => ui'.n_apply = 0
        /\ (ui'.phase \in {"release", "idle"}) => ui'.applied = "SH_NONE"
      ]_vars

\* the Hour "+" control, pressed and held, has just been applied for the third
\* time, 500 ms after the press and 100 ms after the second time, the sample
\* 50 ms before having applied nothing
C34_Witness ==
    /\ ui.ui_state = "UI_SETUP" /\ ui.phase = "hold" /\ ui.n_apply = 3
    /\ ui.applied = "SH_HOUR_PLUS" /\ ui.setup_active = "SH_HOUR_PLUS"
    /\ ui.tick - ui.t_press = 500 /\ ui.tick = ui.t_apply
    /\ ui.stayed = 1


\* C35: over every point of the screen, y is in at most one row band (Hour
\* 52..97, Minute 102..147, Threshold 152..211); the hit test gives Threshold
\* "+" exactly for x in 134..245 and y in 156..191, Hour "+" exactly for x in
\* 198..245 and y in 56..91, Minute "+" exactly for x in 198..245 and y in
\* 106..141, and no control elsewhere, so the Hour and Minute value boxes
\* (x in 134..189) are dead; no point is on a navigation button and a control
C35_HitRegions ==
    (ui.phase = "hit") =>
        LET x == tp.pt.x
            y == tp.pt.y
        IN  /\ (ui.row = "ROW_HOUR") <=> (y \in 52..97)
            /\ (ui.row = "ROW_MIN") <=> (y \in 102..147)
            /\ (ui.row = "ROW_TTH") <=> (y \in 152..211)
            /\ ui.row \in {"ROW_HOUR", "ROW_MIN", "ROW_TTH", "ROW_NONE"}
            /\ (ui.setup_active = "SH_TTH_PLUS") <=>
                    (x \in 134..245 /\ y \in 156..191)
            /\ (ui.setup_active = "SH_HOUR_PLUS") <=>
                    (x \in 198..245 /\ y \in 56..91)
            /\ (ui.setup_active = "SH_MIN_PLUS") <=>
                    (x \in 198..245 /\ y \in 106..141)
            /\ ui.setup_active \in
                    {"SH_TTH_PLUS", "SH_HOUR_PLUS", "SH_MIN_PLUS", "SH_NONE"}
            /\ (x \in 134..189 /\ ui.row \in {"ROW_HOUR", "ROW_MIN"}) =>
                    ui.setup_active = "SH_NONE"
            /\ (ui.nav # "none") => ui.setup_active = "SH_NONE"

\* the point (189, 74), in the Hour value box, has been tested: Hour row, no
\* control
C35_Witness ==
    /\ ui.phase = "hit" /\ tp.pt.x = 189 /\ tp.pt.y = 74
    /\ ui.row = "ROW_HOUR" /\ ui.setup_active = "SH_NONE"


\* C36: an application of Threshold "+" changes the threshold and leaves hour,
\* minute, second, time_from_rtc and time_dirty as they were; leaving Setup
\* after a visit without an Hour or Minute edit writes nothing to the RTC; the
\* threshold is within 20..35 in every reachable state
C36_ThresholdOnly ==
    /\ [](ui.temp_threshold \in 20..35)
    /\ [][ /\ (ui'.applied = "SH_TTH_PLUS") =>
                  /\ ui'.temp_threshold # ui.temp_threshold
                  /\ rtc'.hour = rtc.hour /\ rtc'.minute = rtc.minute
                  /\ rtc'.second = rtc.second
                  /\ rtc'.time_from_rtc = rtc.time_from_rtc
                  /\ ui'.time_dirty = ui.time_dirty
                  /\ ui'.wrote = 0 /\ ui'.edited = ui.edited
           /\ ( /\ ui.ui_state = "UI_SETUP" /\ ui.edited = 0
                /\ ui'.ui_state \in {"UI_CHECK", "UI_PROJECT"} ) =>
                  /\ ui'.wrote = 0 /\ ui'.writes = ui.writes
                  /\ rtc'.regs = rtc.regs /\ rtc'.wbuf = rtc.wbuf
                  /\ rtc'.time_from_rtc = rtc.time_from_rtc ]_vars

\* Setup has been left for Check after nine applications of Threshold "+" took
\* the threshold from 27 through 35 to 20, the time untouched and nothing
\* written
C36_Witness ==
    /\ ui.prev = "UI_SETUP" /\ ui.ui_state = "UI_CHECK" /\ ui.phase = "release"
    /\ ui.temp_threshold = 20 /\ ui.writes = 0 /\ ui.wrote = 0
    /\ rtc.hour = 23 /\ rtc.minute = 59 /\ rtc.time_from_rtc = 1

\* C37: in every reachable state time_dirty = 1 implies that the screen is
\* Setup and that the time is software-advanced (time_from_rtc = 0): off the
\* Setup screen no edit of the time is pending
C37_DirtyOnlyOnSetup ==
    (ui.time_dirty = 1) => (ui.ui_state = "UI_SETUP" /\ rtc.time_from_rtc = 0)

\* an edit is pending on a second visit to Setup, the edit of the first visit
\* having been written on the way out
C37_Witness ==
    /\ ui.time_dirty = 1 /\ ui.ui_state = "UI_SETUP" /\ rtc.time_from_rtc = 0
    /\ ui.writes = 1 /\ ui.exits = 1


\* C38: in every reachable state the sweep is armed exactly when the relay is
\* on (servo_enable = relay_on); the two change only in an iteration that
\* processes the release of a contact begun off the navigation bar and ended on
\* the Relay button (x in 108..197, y in 106..141) while the screen is Check;
\* whatever the screen, an armed sweep steps as soon as 20 ms have passed
C38_ArmedIffRelayOn ==
    /\ [](ui.servo_enable = ui.relay_on)
    /\ [][ /\ (ui'.relay_on # ui.relay_on \/ ui'.servo_enable # ui.servo_enable) =>
                  /\ ui'.phase = "release" /\ ui.ui_state = "UI_CHECK"
                  /\ ui'.ui_state = "UI_CHECK" /\ ui.topbar_down = 0
                  /\ ui.last_x \in 108..197 /\ ui.last_y \in 106..141
           /\ (ui.relay_on = 1 /\ ui'.relay_on = 1) =>
                  /\ (ui'.swept = 1) <=> (ui'.tick - ui.servo_t0_ms >= 20)
                  /\ (ui'.swept = 0) =>
                        (ui'.servo_angle = ui.servo_angle /\ ui'.servo_dir = ui.servo_dir)
                  /\ ui'.ons = ui.ons ]_vars

\* the relay was switched on once on Check, the screen is now Setup after an
\* iteration that began on Setup, and this iteration has stepped the sweep
C38_Witness ==
    /\ ui.ui_state = "UI_SETUP" /\ ui.prev = "UI_SETUP"
    /\ ui.relay_on = 1 /\ ui.servo_enable = 1 /\ ui.swept = 1 /\ ui.ons = 1


\* C39: every time a Setup commit writes to the RTC carries seconds = 0: an
\* Hour edit and a Minute edit both set second to 0, and while the Setup screen
\* is shown nothing else changes hour, minute or second; no refresh and no
\* access to the RTC runs there
C39_CommitSecondsZero ==
    [][ /\ (ui'.wrote = 1) =>
              /\ rtc.second = 0 /\ rtc'.t.seconds = 0 /\ rtc'.wbuf[1] = 0
              /\ rtc'.st = "HAL_OK" => rtc'.regs[1] = 0
        /\ (ui.ui_state = "UI_SETUP" /\ ui'.ui_state = "UI_SETUP") =>
              /\ ui'.refreshed = 0 /\ "rtc" \notin ui'.io /\ ui'.wrote = 0
              /\ (ui'.applied \in {"SH_HOUR_PLUS", "SH_MIN_PLUS"}) => rtc'.second = 0
              /\ (ui'.applied \notin {"SH_HOUR_PLUS", "SH_MIN_PLUS"}) =>
                    /\ rtc'.hour = rtc.hour /\ rtc'.minute = rtc.minute
                    /\ rtc'.second = rtc.second
        /\ (ui'.time_dirty = 1) => rtc'.second = 0 ]_vars

\* the clock read 23:59:56 at the start; one Hour edit later the release that
\* left Setup has written 00:59:00
C39_Witness ==
    /\ ui.wrote = 1 /\ ui.writes = 1 /\ rtc.st = "HAL_OK"
    /\ rtc.t = [seconds |-> 0, minutes |-> 59, hours |-> 0]
    /\ rtc.regs = <<0, 89, 0>>


\* C40: when a bus operation (SWI2C_Mem_Read, SWI2C_Mem_Write, SWI2C_Scan_One,
\* SWI2C_BusClear) has returned, with success or with an error, a timed-out
\* clock wait included, and until the next one is called, the master drives
\* neither line low: its SCL output and its SDA output are both released
C40_MasterReleasesBothLines ==
    (bus.pc \in {"done", "idle"}) => (bus.scl_out = 1 /\ bus.sda_out = 1)

\* a read has failed on a clock wait that timed out, the wait of its STOP
\* timed out as well, and the slave still holds the clock low
C40_Witness ==
    /\ Returned("MemRead") /\ bus.status = "HAL_ERROR"
    /\ Len(bus.log) >= 3
    /\ bus.log[Len(bus.log)].r = "timeout"
    /\ bus.log[Len(bus.log) - 1].r = "timeout"
    /\ slave.scl = 0 /\ bus.scl_out = 1 /\ bus.sda_out = 1

====
